---------------------------- MODULE Spec2Model ----------------------------
(***************************************************************************)
(* A model of realm::Array (realm/array.hpp): the packed, adaptive-width   *)
(* integer array, its accessor, its conditional scan engine and its        *)
(* recursive structural operations.                                        *)
(*                                                                         *)
(* 64-bit machine words (int64_t / uint64_t) are modelled as four 16-bit   *)
(* limbs <<l0, l1, l2, l3>>, least significant first, so that every        *)
(* arithmetic and bitwise operation of the source keeps its 64-bit width   *)
(* and its wrap-around.  Buffers are sequences of bytes (0..255).          *)
(***************************************************************************)
EXTENDS Integers, Sequences, FiniteSets, TLC

VARIABLES
    heap,       \* allocator: ref -> buffer (header fields, data bytes, read-only)
    freed,      \* allocator: ref -> number of times free_() was called on it
    arr,        \* the Array accessor (cached header fields, m_ref, m_data)
    parent,     \* the ArrayParent of arr: the ref it holds for arr, notifications
    query,      \* arguments of the last find / find_first call
    reported,   \* indices handed to find_action by the last logical scan
    findRet,    \* value returned by the last find
    firstRet,   \* value returned by the last find_first
    lastOp,     \* the operation that produced this state, with its arguments
    failed,     \* "" or the REALM_ASSERT that terminated the program
    chain,      \* values given to create / ensure_minimum_width and nothing else
    steps,      \* number of operations performed
    origin      \* the tree a clone was made of, as it was when cloned

vars == <<heap, freed, arr, parent, query, reported, findRet, firstRet, lastOp,
          failed, chain, steps, origin>>

---------------------------------------------------------------------------
(* 64-bit words                                                            *)

Limb == 2^16

W0 == <<0, 0, 0, 0>>
W1 == <<1, 0, 0, 0>>
WOnes == <<Limb - 1, Limb - 1, Limb - 1, Limb - 1>>

\* uint64_t(n) for a natural n < 2^31
FromNat(n) == <<n % Limb, n \div Limb, 0, 0>>

Min2(a, b) == IF a < b THEN a ELSE b

\* bit i of the 16-bit limb x
LBit(x, i) == (x \div (2^i)) % 2

\* x & y on 4-bit quantities, tabulated
NibbleAnd ==
    <<>> \o [x \in 1..16 |->
        <<>> \o [y \in 1..16 |->
            LBit(x - 1, 0) * LBit(y - 1, 0)
            + 2 * LBit(x - 1, 1) * LBit(y - 1, 1)
            + 4 * LBit(x - 1, 2) * LBit(y - 1, 2)
            + 8 * LBit(x - 1, 3) * LBit(y - 1, 3)]]

\* x & y on quantities of n nibbles
RECURSIVE LAndN(_, _, _)
LAndN(x, y, n) ==
    IF n = 0 THEN 0
    ELSE NibbleAnd[(x % 16) + 1][(y % 16) + 1]
         + 16 * LAndN(x \div 16, y \div 16, n - 1)

\* x & y on 16-bit limbs
LAnd(x, y) == LAndN(x, y, 4)

\* a & b, a | b, a ^ b, ~a on uint64_t
WAnd(a, b) == <<>> \o [i \in 1..4 |-> LAnd(a[i], b[i])]
WOr(a, b) == <<>> \o [i \in 1..4 |-> a[i] + b[i] - LAnd(a[i], b[i])]
WXor(a, b) == <<>> \o [i \in 1..4 |-> a[i] + b[i] - 2 * LAnd(a[i], b[i])]
WNot(a) == <<Limb - 1 - a[1], Limb - 1 - a[2], Limb - 1 - a[3], Limb - 1 - a[4]>>

\* a + b + cin modulo 2^64
WAddC(a, b, cin) ==
    LET s1 == a[1] + b[1] + cin
        s2 == a[2] + b[2] + (s1 \div Limb)
        s3 == a[3] + b[3] + (s2 \div Limb)
        s4 == a[4] + b[4] + (s3 \div Limb)
    IN  <<s1 % Limb, s2 % Limb, s3 % Limb, s4 % Limb>>

WAdd(a, b) == WAddC(a, b, 0)
WSub(a, b) == WAddC(a, WNot(b), 1)
WNeg(a) == WAddC(W0, WNot(a), 1)

\* int64_t(n) for an integer n with |n| < 2^31
FromInt(n) == IF n >= 0 THEN FromNat(n) ELSE WNeg(FromNat(-n))

\* limb j (0-based) of a, 0 outside the word
LimbAt(a, j) == IF j >= 0 /\ j <= 3 THEN a[j + 1] ELSE 0

\* a >> k (logical) and a << k on uint64_t, 0 <= k <= 63
WShr(a, k) ==
    <<>> \o [i \in 1..4 |->
        (LimbAt(a, i - 1 + (k \div 16)) \div (2^(k % 16)))
        + (LimbAt(a, i + (k \div 16)) % (2^(k % 16))) * (2^(16 - (k % 16)))]

WShl(a, k) ==
    <<>> \o [i \in 1..4 |->
        ((LimbAt(a, i - 1 - (k \div 16)) % (2^(16 - (k % 16)))) * (2^(k % 16)))
        + (LimbAt(a, i - 2 - (k \div 16)) \div (2^(16 - (k % 16))))]

\* (1ULL << k) for 0 <= k <= 63
WPow2(k) == WShl(W1, k)

\* unsigned and signed comparison
WULt(a, b) ==
    \/ a[4] < b[4]
    \/ a[4] = b[4] /\ a[3] < b[3]
    \/ a[4] = b[4] /\ a[3] = b[3] /\ a[2] < b[2]
    \/ a[4] = b[4] /\ a[3] = b[3] /\ a[2] = b[2] /\ a[1] < b[1]

WIsNeg(a) == a[4] >= 2^15

WSLt(a, b) ==
    IF WIsNeg(a) # WIsNeg(b) THEN WIsNeg(a) ELSE WULt(a, b)

WSLe(a, b) == a = b \/ WSLt(a, b)

\* the small natural a word holds (only used where the source holds a size_t)
ToNat(a) == a[1] + Limb * a[2]

---------------------------------------------------------------------------
(* Element widths and representable ranges                                 *)

Widths == {0, 1, 2, 4, 8, 16, 32, 64}

no0(v) == IF v = 0 THEN 1 ELSE v

\* -2^(k-1) and 2^(k-1) - 1 as int64_t, for k in {8, 16, 32, 64}
WMinSigned(k) == WNeg(WPow2(k - 1))
WMaxSigned(k) == WSub(WPow2(k - 1), W1)

lbound_for_width(width) ==
    IF width = 32 THEN WMinSigned(32)
    ELSE IF width = 16 THEN WMinSigned(16)
    ELSE IF width < 8 THEN W0
    ELSE IF width = 8 THEN WMinSigned(8)
    ELSE WMinSigned(64)

ubound_for_width(width) ==
    IF width = 32 THEN WMaxSigned(32)
    ELSE IF width = 16 THEN WMaxSigned(16)
    ELSE IF width = 0 THEN W0
    ELSE IF width = 1 THEN FromNat(1)
    ELSE IF width = 2 THEN FromNat(3)
    ELSE IF width = 4 THEN FromNat(15)
    ELSE IF width = 8 THEN WMaxSigned(8)
    ELSE WMaxSigned(64)

\* value fits in an element of the given width
Fits(v, width) ==
    WSLe(lbound_for_width(width), v) /\ WSLe(v, ubound_for_width(width))

\* Array::bit_width: the smallest supported width able to hold v
bit_width(v) ==
    IF WShr(v, 4) = W0
    THEN <<0, 1, 2, 2, 4, 4, 4, 4, 4, 4, 4, 4, 4, 4, 4, 4>>[v[1] + 1]
    ELSE LET u == IF WIsNeg(v) THEN WNot(v) ELSE v
         IN  IF WShr(u, 31) # W0 THEN 64
             ELSE IF WShr(u, 15) # W0 THEN 32
             ELSE IF WShr(u, 7) # W0 THEN 16
             ELSE 8

---------------------------------------------------------------------------
(* Packed element access on a data area (a sequence of bytes)              *)

\* byte k (0-based, little endian) of the word v
ByteOf(v, k) == (v[(k \div 2) + 1] \div (IF k % 2 = 0 THEN 1 ELSE 256)) % 256

\* the 16-bit limb stored at byte offset off
Limb16At(data, off) == data[off + 1] + 256 * data[off + 2]

\* sign extension of a k-bit quantity held in limbs (low limbs given)
SignExt8(b) ==
    IF b >= 128 THEN <<(Limb - 256) + b, Limb - 1, Limb - 1, Limb - 1>>
    ELSE <<b, 0, 0, 0>>

SignExt16(l) ==
    IF l >= 2^15 THEN <<l, Limb - 1, Limb - 1, Limb - 1>> ELSE <<l, 0, 0, 0>>

SignExt32(l0, l1) ==
    IF l1 >= 2^15 THEN <<l0, l1, Limb - 1, Limb - 1>> ELSE <<l0, l1, 0, 0>>

get_universal_unsigned(w, data, ndx) ==
    IF w = 0 THEN W0
    ELSE IF w = 1 THEN FromNat((data[(ndx \div 8) + 1] \div (2^(ndx % 8))) % 2)
    ELSE IF w = 2 THEN FromNat((data[(ndx \div 4) + 1] \div (2^(2 * (ndx % 4)))) % 4)
    ELSE IF w = 4 THEN FromNat((data[(ndx \div 2) + 1] \div (2^(4 * (ndx % 2)))) % 16)
    ELSE IF w = 8 THEN FromNat(data[ndx + 1])
    ELSE IF w = 16 THEN SignExt16(Limb16At(data, ndx * 2))
    ELSE IF w = 32 THEN SignExt32(Limb16At(data, ndx * 4), Limb16At(data, ndx * 4 + 2))
    ELSE <<Limb16At(data, ndx * 8), Limb16At(data, ndx * 8 + 2),
           Limb16At(data, ndx * 8 + 4), Limb16At(data, ndx * 8 + 6)>>

\* Array::get_universal<w>(data, ndx)
get_universal(w, data, ndx) ==
    IF w = 0 THEN W0
    ELSE IF w = 1 THEN FromNat((data[(ndx \div 8) + 1] \div (2^(ndx % 8))) % 2)
    ELSE IF w = 2 THEN FromNat((data[(ndx \div 4) + 1] \div (2^(2 * (ndx % 4)))) % 4)
    ELSE IF w = 4 THEN FromNat((data[(ndx \div 2) + 1] \div (2^(4 * (ndx % 2)))) % 16)
    ELSE IF w = 8 THEN SignExt8(data[ndx + 1])
    ELSE IF w = 16 THEN SignExt16(Limb16At(data, ndx * 2))
    ELSE IF w = 32 THEN SignExt32(Limb16At(data, ndx * 4), Limb16At(data, ndx * 4 + 2))
    ELSE <<Limb16At(data, ndx * 8), Limb16At(data, ndx * 8 + 2),
           Limb16At(data, ndx * 8 + 4), Limb16At(data, ndx * 8 + 6)>>

\* replace the w-bit field at bit position sh of byte b by the low bits of v
PutField(b, sh, w, v) ==
    b - ((b \div (2^sh)) % (2^w)) * (2^sh) + (v[1] % (2^w)) * (2^sh)

\* store bytes 0..n-1 of v at byte offset off
PutBytes(data, off, n, v) ==
    SubSeq(data, 1, off)
    \o (<<>> \o [k \in 1..n |-> ByteOf(v, k - 1)])
    \o SubSeq(data, off + n + 1, Len(data))

\* the width-specialised setter (set_direct<w>): low-bit-first packing below
\* 8 bits, native little-endian integers from 8 bits up
set_direct(w, data, ndx, v) ==
    IF w = 0 THEN data
    ELSE IF w = 1 THEN
        [data EXCEPT ![(ndx \div 8) + 1] = PutField(@, ndx % 8, 1, v)]
    ELSE IF w = 2 THEN
        [data EXCEPT ![(ndx \div 4) + 1] = PutField(@, 2 * (ndx % 4), 2, v)]
    ELSE IF w = 4 THEN
        [data EXCEPT ![(ndx \div 2) + 1] = PutField(@, 4 * (ndx % 2), 4, v)]
    ELSE PutBytes(data, ndx * (w \div 8), w \div 8, v)

\* the uint64_t read through an int64_t pointer at byte offset off
ChunkAt(data, off) ==
    <<Limb16At(data, off), Limb16At(data, off + 2),
      Limb16At(data, off + 4), Limb16At(data, off + 6)>>

---------------------------------------------------------------------------
(* Conditional scan engine                                                 *)
(*                                                                         *)
(* A scan context cx is [w, data, value, base, sink]: the template         *)
(* bitwidth, m_data, the comparison value, baseindex and the aggregate     *)
(* sink.  A scan state st is [out, cont, pos, fail]: the (index, value)    *)
(* pairs handed to find_action so far, FALSE in cont once find_action has  *)
(* returned false, the loop position carried out of a chunk loop, and the  *)
(* assertion hit, if any.  A loop of the source is an operator that takes  *)
(* the state reached so far and returns it unchanged once cont is FALSE    *)
(* (the source's "return false").                                          *)

Conds == {"Equal", "NotEqual", "Greater", "Less"}

npos == -1
not_found == -1

ScanStart ==
    [out |-> <<>>, cont |-> TRUE, pos |-> 0, fail |-> "", calls |-> <<>>,
     offers |-> 0, compared |-> 0]

\* cond::operator()(v1, v2)
CondHolds(c, v1, v2) ==
    IF c = "Equal" THEN v1 = v2
    ELSE IF c = "NotEqual" THEN v1 # v2
    ELSE IF c = "Greater" THEN WSLt(v2, v1)
    ELSE WSLt(v1, v2)

\* cond::can_match / cond::will_match over the representable range
can_match(c, v, lbound, ubound) ==
    IF c = "Equal" THEN WSLe(lbound, v) /\ WSLe(v, ubound)
    ELSE IF c = "NotEqual" THEN ~(v = W0 /\ ubound = W0 /\ lbound = W0)
    ELSE IF c = "Greater" THEN WSLt(v, ubound)
    ELSE WSLt(lbound, v)

will_match_strict(c, v, lbound, ubound) ==
    IF c = "Equal" THEN v = W0 /\ ubound = W0 /\ lbound = W0
    ELSE IF c = "NotEqual" THEN WSLt(ubound, v) \/ WSLt(v, lbound)
    ELSE IF c = "Greater" THEN WSLt(WAdd(v, W1), lbound)
    ELSE WSLt(WAdd(ubound, W1), v)

will_match(c, v, lbound, ubound) ==
    IF c = "Equal" THEN v = W0 /\ ubound = W0 /\ lbound = W0
    ELSE IF c = "NotEqual" THEN WSLt(ubound, v) \/ WSLt(v, lbound)
    ELSE IF c = "Greater" THEN WSLt(v, lbound)
    ELSE WSLt(ubound, v)

\* the callback returns false on its stopAt-th invocation (never when 0)
callback_ret(sink, st) == Len(st.out) + 1 # sink.stopAt

find_first_match_continue(sink, st) == TRUE

\* QueryStateFindFirst::match: counts, records the index, returns false
find_first_match(sink, st) == FALSE

\* QueryStateFindAll::match: counts, records the index, and continues while
\* the limit is above the count
find_all_match(sink, st) == sink.limit > sink.match_count + Len(st.out) + 1

\* the scan state with n more elements compared against the value
compared(st, n) == [st EXCEPT !.compared = @ + n]

find_action_never_stops(sink, st, index, value) ==
    [st EXCEPT !.out = Append(@, <<index, value>>)]

\* Array::find_action: callback(index), or state->match(index, value)
find_action(sink, st, index, value) ==
    [st EXCEPT !.out = Append(@, <<index, value>>),
               !.cont = IF sink.kind = "callback" THEN callback_ret(sink, st)
                        ELSE IF sink.kind = "findall" THEN find_all_match(sink, st)
                        ELSE find_first_match(sink, st)]

find_action_pattern_consumes(index, pattern, sink) == TRUE

\* Array::find_action_pattern: never consumes
find_action_pattern(index, pattern, sink) == FALSE

\* the loop state with one more pattern offered to find_action_pattern
offered(L) == [L EXCEPT !.st.offers = @ + 1]

round_up(p, align) ==
    IF p % align = 0 THEN p ELSE p + (align - (p % align))

lower_bits(width) ==
    IF width = 1 THEN WOnes
    ELSE IF width = 2 THEN <<21845, 21845, 21845, 21845>>
    ELSE IF width = 4 THEN <<4369, 4369, 4369, 4369>>
    ELSE IF width = 8 THEN <<257, 257, 257, 257>>
    ELSE IF width = 16 THEN <<1, 1, 1, 1>>
    ELSE IF width = 32 THEN <<1, 0, 1, 0>>
    ELSE W1

\* (width == 64 ? ~0ULL : ((1ULL << width) - 1ULL))
WidthMask(width) == IF width = 64 THEN WOnes ELSE WSub(WPow2(width), W1)

\* (~0ULL / no0(mask)) * x modulo 2^64, for mask = WidthMask(width): the
\* quotient is lower_bits(width), so the product is the sum of x << (k * width)
\* (the sum over k in [lo, hi) is evaluated by halving the range, which
\* keeps the evaluation depth logarithmic; so are the element loops below)
RECURSIVE MulRep(_, _, _, _)
MulRep(width, x, lo, hi) ==
    IF hi <= lo THEN W0
    ELSE IF hi = lo + 1 THEN WShl(x, lo * width)
    ELSE WAdd(MulRep(width, x, lo, (lo + hi) \div 2),
              MulRep(width, x, (lo + hi) \div 2, hi))

AllOnesDivMaskTimes(width, x) == MulRep(width, x, 0, 64 \div no0(width))

\* x >> k where the source leaves k = 64 undefined: the word is either
\* unchanged (count taken modulo 64) or cleared, by the choice ub
ShrMaybe64(x, k, ub) ==
    IF k >= 64 THEN (IF ub = "zero" THEN W0 ELSE x) ELSE WShr(x, k)

test_zero_no_upper(width, value) ==
    WAnd(WSub(value, lower_bits(width)), WNot(value)) # W0

\* Array::test_zero<width>: some lane of value is zero
test_zero(width, value) ==
    WAnd(WAnd(WSub(value, lower_bits(width)), WNot(value)),
         WShl(lower_bits(width), IF width = 0 THEN 0 ELSE width - 1)) # W0

\* lane number s of the 64-bit word v
LaneOf(width, v, s) == WAnd(WShr(v, width * s), WidthMask(width))

RECURSIVE find_zero_loop(_, _, _, _)
find_zero_loop(eq, width, v, start) ==
    IF width * start >= 64 THEN -1
    ELSE IF eq = (LaneOf(width, v, start) # W0)
         THEN find_zero_loop(eq, width, v, start + 1)
         ELSE start

\* the bisection tests of find_zero: no zero lane (eq) / no set bit (not eq)
\* in the part of v selected by low; keep is the complement of low
find_zero_none(eq, width, v, keep, low) ==
    IF eq THEN ~test_zero(width, WOr(v, keep)) ELSE WAnd(v, low) = W0

\* the lane at which the linear search of find_zero starts
find_zero_start(eq, width, v) ==
    IF width <= 8
    THEN IF find_zero_none(eq, width, v, <<0, 0, Limb - 1, Limb - 1>>,
                           <<Limb - 1, Limb - 1, 0, 0>>)
         THEN ((64 \div no0(width)) \div 2)
              + (IF width <= 4
                    /\ find_zero_none(eq, width, v, <<0, 0, 0, Limb - 1>>,
                                      <<Limb - 1, Limb - 1, Limb - 1, 0>>)
                 THEN (64 \div no0(width)) \div 4 ELSE 0)
         ELSE (IF width <= 4
                  /\ find_zero_none(eq, width, v, <<0, Limb - 1, Limb - 1, Limb - 1>>,
                                    <<Limb - 1, 0, 0, 0>>)
               THEN (64 \div no0(width)) \div 4 ELSE 0)
    ELSE 0

\* Array::find_zero<eq, width>: position of the first zero (eq) or non-zero
\* (not eq) lane of v; -1 when the scan runs off the word
find_zero(eq, width, v) ==
    IF eq = (LaneOf(width, v, 0) = W0) THEN 0
    ELSE find_zero_loop(eq, width, v, find_zero_start(eq, width, v))

\* one iteration of the scalar loops: if (cond(get(i), value)) find_action(...)
scalar_step(cx, c, st, i, v) ==
    IF CondHolds(c, v, cx.value)
    THEN find_action(cx.sink, compared(st, 1), i + cx.base, v)
    ELSE compared(st, 1)

\* the scalar loops: for (; i < e; ++i) ...
RECURSIVE scalar_loop(_, _, _, _, _)
scalar_loop(cx, c, st, i, e) ==
    IF i >= e \/ ~st.cont THEN st
    ELSE IF e = i + 1
    THEN scalar_step(cx, c, st, i, get_universal(cx.w, cx.data, i))
    ELSE scalar_loop(cx, c, scalar_loop(cx, c, st, i, (i + e) \div 2),
                     (i + e) \div 2, e)

\* The match-extraction loop of compare_equality on one 64-bit chunk,
\* while (eq ? test_zero(v2) : v2) { ... }.  Its loop state L is [st, v2, a,
\* done]: v2 is chunk ^ valuemask shifted so far, a the lane reached, done
\* is TRUE once the loop is left; start is the chunk's first index.
\* eq_chunk_at is the loop body once t = find_zero(v2) is known.
eq_chunk_at(cx, eq, L, start, ub, t) ==
    IF t < 0
    THEN [L EXCEPT !.st.fail = "find_zero ran off the word", !.done = TRUE]
    ELSE IF L.a + t >= 64 \div no0(cx.w) THEN [L EXCEPT !.done = TRUE]
    ELSE [st |-> find_action(cx.sink, L.st, L.a + t + start + cx.base,
                             get_universal(cx.w, cx.data, start + L.a + t)),
          v2 |-> ShrMaybe64(L.v2, (t + 1) * cx.w, ub),
          a |-> L.a + t + 1,
          done |-> FALSE]

eq_chunk_iter(cx, eq, L, start, ub) ==
    IF L.done \/ ~L.st.cont THEN [L EXCEPT !.done = TRUE]
    ELSE IF ~(IF eq THEN test_zero(cx.w, L.v2) ELSE L.v2 # W0)
    THEN [L EXCEPT !.done = TRUE]
    ELSE IF find_action_pattern(start + cx.base, L.v2, cx.sink)
    THEN [offered(L) EXCEPT !.done = TRUE]
    ELSE eq_chunk_at(cx, eq, offered(L), start, ub, find_zero(eq, cx.w, L.v2))

\* at most n iterations of the loop (n halved to keep the evaluation shallow)
RECURSIVE eq_chunk_run(_, _, _, _, _, _)
eq_chunk_run(cx, eq, L, start, ub, n) ==
    IF L.done THEN L
    ELSE IF n <= 1 THEN eq_chunk_iter(cx, eq, L, start, ub)
    ELSE eq_chunk_run(cx, eq, eq_chunk_run(cx, eq, L, start, ub, n \div 2),
                      start, ub, n - (n \div 2))

\* the state the loop is left in; a loop still running after lanes + 2
\* iterations does not terminate
loop_exit(L) ==
    IF L.done THEN L.st ELSE [L.st EXCEPT !.fail = "loop does not terminate"]

eq_chunk(cx, eq, st, v2, start, ub) ==
    loop_exit(eq_chunk_run(cx, eq, [st |-> st, v2 |-> v2, a |-> 0, done |-> FALSE],
                           start, ub, (64 \div no0(cx.w)) + 2))

\* while (p < e) { ... ++p; } over byte offsets p, e into m_data
RECURSIVE eq_chunks(_, _, _, _, _, _, _)
eq_chunks(cx, eq, st, valuemask, p, e, ub) ==
    IF ~st.cont \/ st.fail # "" THEN st
    ELSE IF ~(p < e) THEN [st EXCEPT !.pos = p]
    ELSE eq_chunks(cx, eq,
                   eq_chunk(cx, eq, compared(st, 64 \div no0(cx.w)),
                            WXor(ChunkAt(cx.data, p), valuemask),
                            (p * 8) \div no0(cx.w), ub),
                   valuemask, p + 8, e, ub)

compare_tail_skip(cx, c, st, end) == st

\* the trailing scalar loop of compare_equality and compare_relation, from
\* the index the chunk loop stopped at
compare_tail(cx, c, st, end) ==
    IF ~st.cont \/ st.fail # "" THEN st
    ELSE scalar_loop(cx, c, st, (st.pos * 8) \div no0(cx.w), end)

\* Array::compare_equality<eq, width> after the leading scalar loop, which
\* ended at index ee in state st
compare_equality_rest(cx, eq, c, ee, end, st, ub) ==
    IF ~st.cont \/ ee >= end THEN st
    ELSE IF cx.w # 32 /\ cx.w # 64
    THEN compare_tail(cx, c,
             eq_chunks(cx, eq, st,
                       AllOnesDivMaskTimes(cx.w, WAnd(cx.value, WidthMask(cx.w))),
                       (ee * cx.w) \div 8, ((end * cx.w) \div 8) - 8, ub),
             end)
    ELSE scalar_loop(cx, c, st, ee, end)

\* Array::compare_equality<eq, width>
compare_equality(cx, eq, c, start, end, st, ub) ==
    compare_equality_rest(cx, eq, c,
        Min2(round_up(start, 64 \div no0(cx.w)), end), end,
        scalar_loop(cx, c, st, start, Min2(round_up(start, 64 \div no0(cx.w)), end)),
        ub)

\* the lane value find_gtlt compares: unsigned below 8 bits, signed above
gtlt_lane(width, chunk) ==
    IF width < 8 THEN WAnd(chunk, WidthMask(width))
    ELSE IF width = 8 THEN SignExt8(chunk[1] % 256)
    ELSE IF width = 16 THEN SignExt16(chunk[1])
    ELSE IF width = 32 THEN SignExt32(chunk[1], chunk[2])
    ELSE chunk

\* one lane of find_gtlt: v2 is the lane's value
find_gtlt_step(cx, gt, v, st, index, v2) ==
    IF (IF gt THEN WSLt(v, v2) ELSE WSLt(v2, v))
    THEN find_action(cx.sink, st, index, v2) ELSE st

\* lanes [i, e) of the chunk; lane i is read after i shifts by width
RECURSIVE find_gtlt_loop(_, _, _, _, _, _, _, _)
find_gtlt_loop(cx, gt, v, chunk, st, baseindex, i, e) ==
    IF i >= e \/ ~st.cont THEN st
    ELSE IF e = i + 1
    THEN find_gtlt_step(cx, gt, v, st, i + baseindex,
                        gtlt_lane(cx.w, WShr(chunk, i * cx.w)))
    ELSE find_gtlt_loop(cx, gt, v, chunk,
             find_gtlt_loop(cx, gt, v, chunk, st, baseindex, i, (i + e) \div 2),
             baseindex, (i + e) \div 2, e)

\* Array::find_gtlt<gt, width>: per-lane comparison of one chunk
find_gtlt(cx, gt, v, chunk, st, baseindex) ==
    find_gtlt_loop(cx, gt, v, chunk, st, baseindex, 0, 64 \div cx.w)

\* Array::find_gtlt_magic<gt, width>
find_gtlt_magic(gt, width, v) ==
    IF gt THEN AllOnesDivMaskTimes(width, WSub(WShr(WidthMask(width), 1), v))
    ELSE AllOnesDivMaskTimes(width, v)

\* index of the lowest set bit of a non-zero 16-bit limb
RECURSIVE first_set_bit16(_)
first_set_bit16(x) == IF x % 2 = 1 THEN 0 ELSE 1 + first_set_bit16(x \div 2)

\* index of the lowest set bit of a non-zero word
first_set_bit64(v) ==
    IF v[1] # 0 THEN first_set_bit16(v[1])
    ELSE IF v[2] # 0 THEN 16 + first_set_bit16(v[2])
    ELSE IF v[3] # 0 THEN 32 + first_set_bit16(v[3])
    ELSE 48 + first_set_bit16(v[4])

\* The match-extraction loop of find_gtlt_fast, while (m) { ... }.  Its
\* loop state L is [st, m, p, done]: m holds the match bits not yet consumed,
\* p the lane reached.  find_gtlt_fast_at is the loop body once
\* t = first_set_bit64(m) / width is known.
find_gtlt_fast_at_no_shift(cx, chunk, L, baseindex, t) ==
    [st |-> find_action(cx.sink, L.st, L.p + t + baseindex,
                        WAnd(WShr(chunk, (L.p + t) * cx.w), WidthMask(cx.w))),
     m |-> L.m,
     p |-> L.p + t + 1,
     done |-> FALSE]

find_gtlt_fast_at(cx, chunk, L, baseindex, t) ==
    [st |-> find_action(cx.sink, L.st, L.p + t + baseindex,
                        WAnd(WShr(chunk, (L.p + t) * cx.w), WidthMask(cx.w))),
     m |-> IF (t + 1) * cx.w = 64 THEN W0 ELSE WShr(L.m, (t + 1) * cx.w),
     p |-> L.p + t + 1,
     done |-> FALSE]

find_gtlt_fast_iter(cx, chunk, L, baseindex) ==
    IF L.done \/ ~L.st.cont THEN [L EXCEPT !.done = TRUE]
    ELSE IF L.m = W0 THEN [L EXCEPT !.done = TRUE]
    ELSE IF find_action_pattern(baseindex, WShr(L.m, no0(cx.w) - 1), cx.sink)
    THEN [offered(L) EXCEPT !.done = TRUE]
    ELSE find_gtlt_fast_at(cx, chunk, offered(L), baseindex,
                           first_set_bit64(L.m) \div no0(cx.w))

RECURSIVE find_gtlt_fast_run(_, _, _, _, _)
find_gtlt_fast_run(cx, chunk, L, baseindex, n) ==
    IF L.done THEN L
    ELSE IF n <= 1 THEN find_gtlt_fast_iter(cx, chunk, L, baseindex)
    ELSE find_gtlt_fast_run(cx, chunk,
                            find_gtlt_fast_run(cx, chunk, L, baseindex, n \div 2),
                            baseindex, n - (n \div 2))

find_gtlt_fast_loop(cx, chunk, m, st, baseindex) ==
    loop_exit(find_gtlt_fast_run(cx, chunk,
                                 [st |-> st, m |-> m, p |-> 0, done |-> FALSE],
                                 baseindex, (64 \div no0(cx.w)) + 2))

find_gtlt_fast_less(cx, gt, chunk, magic, st, baseindex) ==
    find_gtlt_fast_loop(cx, chunk,
        WAnd(WAnd(WSub(chunk, magic), WNot(chunk)),
             AllOnesDivMaskTimes(cx.w, WAdd(WShr(WidthMask(cx.w), 1), W1))),
        st, baseindex)

\* Array::find_gtlt_fast<gt, width>: the has-less / has-more in word bit hack
find_gtlt_fast(cx, gt, chunk, magic, st, baseindex) ==
    find_gtlt_fast_loop(cx, chunk,
        WAnd(IF gt THEN WOr(WAdd(chunk, magic), chunk)
             ELSE WAnd(WSub(chunk, magic), WNot(chunk)),
             AllOnesDivMaskTimes(cx.w, WAdd(WShr(WidthMask(cx.w), 1), W1))),
        st, baseindex)

\* the guard of the bit-hack branch of compare_relation
gtlt_fast_applies(gt, width, value, magic) ==
    /\ value # WAnd(magic, WidthMask(width))
    /\ ~WIsNeg(value)
    /\ width >= 2
    /\ WSLe(value, WSub(WShr(WidthMask(width), 1), IF gt THEN W1 ELSE W0))

\* the routine the chunk loops of compare_relation hand the chunk v to
rel_chunk_routine(cx, fast, v) ==
    IF fast /\ WAnd(WShl(lower_bits(cx.w), no0(cx.w) - 1), v) = W0
    THEN "find_gtlt_fast"
    ELSE "find_gtlt"

\* the scan state with a call of a chunk routine noted
called(st, routine, baseindex) ==
    [st EXCEPT !.calls = Append(@, [routine |-> routine, baseindex |-> baseindex])]

\* one chunk of the chunk loops of compare_relation
rel_chunk(cx, gt, st, magic, fast, v, baseindex) ==
    IF rel_chunk_routine(cx, fast, v) = "find_gtlt_fast"
    THEN find_gtlt_fast(cx, gt, v, magic,
                        called(compared(st, 64 \div no0(cx.w)), "find_gtlt_fast",
                               baseindex),
                        baseindex)
    ELSE find_gtlt(cx, gt, cx.value, v,
                   called(compared(st, 64 \div no0(cx.w)), "find_gtlt", baseindex),
                   baseindex)

RECURSIVE rel_chunks(_, _, _, _, _, _, _)
rel_chunks(cx, gt, st, magic, fast, p, e) ==
    IF ~st.cont THEN st
    ELSE IF ~(p < e) THEN [st EXCEPT !.pos = p]
    ELSE rel_chunks(cx, gt,
                    rel_chunk(cx, gt, st, magic, fast, ChunkAt(cx.data, p),
                              ((p * 8) \div no0(cx.w)) + cx.base),
                    magic, fast, p + 8, e)

\* the chunk loops of compare_relation, entered with magic computed
rel_chunks_from(cx, gt, st, magic, p, e) ==
    rel_chunks(cx, gt, st, magic, gtlt_fast_applies(gt, cx.w, cx.value, magic), p, e)

\* Array::compare_relation<gt, bitwidth> after the leading scalar loop, which
\* ended at index ee in state st
compare_relation_rest(cx, gt, c, ee, end, st) ==
    IF ~st.cont \/ ee >= end THEN st
    ELSE IF cx.w \in {1, 2, 4, 8, 16}
    THEN compare_tail(cx, c,
             rel_chunks_from(cx, gt, st, find_gtlt_magic(gt, cx.w, cx.value),
                             (ee * cx.w) \div 8, ((end * cx.w) \div 8) - 8),
             end)
    ELSE scalar_loop(cx, c, st, ee, end)

\* Array::compare_relation<gt, bitwidth>
compare_relation(cx, gt, c, start, end, st) ==
    compare_relation_rest(cx, gt, c,
        Min2(round_up(start, 64 \div no0(cx.w)), end), end,
        scalar_loop(cx, c, st, start, Min2(round_up(start, 64 \div no0(cx.w)), end)))

\* Array::compare<cond, bitwidth>
compare(cx, c, start, end, st, ub) ==
    IF c = "Equal" \/ c = "NotEqual"
    THEN compare_equality(cx, c = "Equal", c, start, end, st, ub)
    ELSE compare_relation(cx, c = "Greater", c, start, end, st)

RECURSIVE will_match_loop(_, _, _, _)
will_match_loop(cx, st, i, end2) ==
    IF ~(i < end2) \/ ~st.cont THEN st
    ELSE IF end2 = i + 1
    THEN find_action(cx.sink, st, i + cx.base, get_universal(cx.w, cx.data, i))
    ELSE will_match_loop(cx, will_match_loop(cx, st, i, (i + end2) \div 2),
                         (i + end2) \div 2, end2)

find_all_will_match_limited(cx, start2, end, st) ==
    will_match_loop(cx, st, start2,
        IF end - start2 > cx.sink.limit - cx.sink.match_count
        THEN start2 + (cx.sink.limit - cx.sink.match_count) ELSE end)

\* Array::find_all_will_match<bitwidth, Callback>
find_all_will_match(cx, start2, end, st) ==
    will_match_loop(cx, st, start2,
        IF cx.sink.kind = "callback" THEN end
        ELSE IF end - start2 > cx.sink.limit - cx.sink.match_count
        THEN start2 + (cx.sink.limit - cx.sink.match_count) ELSE end)

\* Array::find_optimized<cond, bitwidth, Callback> once end is resolved
find_optimized_range(cx, m_size, c, start, end, st, ub) ==
    IF ~(m_size > start /\ start < end) THEN st
    ELSE IF ~can_match(c, cx.value, lbound_for_width(cx.w), ubound_for_width(cx.w))
    THEN st
    ELSE IF will_match(c, cx.value, lbound_for_width(cx.w), ubound_for_width(cx.w))
    THEN find_all_will_match(cx, start, end, st)
    ELSE IF cx.w = 0 THEN [st EXCEPT !.fail = "REALM_ASSERT_3(m_width, !=, 0)"]
    ELSE compare(cx, c, start, end, st, ub)

\* Array::find_optimized<cond, bitwidth, Callback> without the vector path
find_optimized(cx, m_size, c, start, end, st, ub) ==
    find_optimized_range(cx, m_size, c, start,
                         IF end = npos THEN m_size ELSE end, st, ub)

---------------------------------------------------------------------------
(* Buffers, the allocator and the accessor                                 *)

\* bounds of the model
MaxBufs == 10
MaxChunks == 2
MaxSize == 3
MaxSteps == 3

header_size == 8

Refs == {8 * i : i \in 1..MaxBufs}

\* NodeHeader::calc_byte_size for wtype_Bits: header plus packed bits,
\* rounded up to 8 bytes
calc_byte_size(size, width) ==
    ((((size * width + 7) \div 8) + 7) \div 8) * 8 + header_size

\* the width types of a header
WidthTypes == {"wtype_Bits", "wtype_Multiply", "wtype_Ignore"}

\* NodeHeader::calc_byte_size: the bytes the elements take under the width
\* type, rounded up to 8 bytes, and the header
calc_byte_size_for(wtype, size, width) ==
    LET num_bytes == IF wtype = "wtype_Bits" THEN (size * width + 7) \div 8
                     ELSE IF wtype = "wtype_Multiply" THEN size * width
                     ELSE size
    IN  ((num_bytes + 7) \div 8) * 8 + header_size

get_max_byte_size_half(num_elems) == header_size + num_elems * 4

\* Array::get_max_byte_size: max_bytes_per_elem is 8
get_max_byte_size(num_elems) == header_size + num_elems * 8

\* a ref the allocator has not handed out
NoBuf == [used |-> FALSE, live |-> FALSE, ro |-> FALSE, wtype |-> "wtype_Bits",
          width |-> 0, size |-> 0,
          inner |-> FALSE, hasrefs |-> FALSE, ctx |-> FALSE, data |-> <<>>]

Zeros(n) == <<>> \o [i \in 1..n |-> 0]

\* the elements of a buffer, decoded
BufGet(b, i) == get_universal(b.width, b.data, i)
BufElems(b) == <<>> \o [i \in 1..b.size |-> BufGet(b, i - 1)]

\* set elements [lo, hi) of data from elems, in ascending order; a store
\* keeps the length of data, and comparing the lengths has the first half
\* computed before the second starts
RECURSIVE FillFrom(_, _, _, _, _)
FillFrom(w, data, elems, lo, hi) ==
    IF hi <= lo THEN data
    ELSE IF hi = lo + 1 THEN set_direct(w, data, lo, elems[lo + 1])
    ELSE LET half == FillFrom(w, data, elems, lo, (lo + hi) \div 2)
         IN  IF Len(half) = Len(data)
             THEN FillFrom(w, half, elems, (lo + hi) \div 2, hi)
             ELSE half

\* the data area of a buffer of the given width holding elems
Encode(w, elems) ==
    FillFrom(w, Zeros(calc_byte_size(Len(elems), w) - header_size), elems,
             0, Len(elems))

\* a writable buffer of the given width holding elems
MakeBuf(w, elems, inner, hasrefs, ctx) ==
    [used |-> TRUE, live |-> TRUE, ro |-> FALSE, wtype |-> "wtype_Bits",
     width |-> w, size |-> Len(elems),
     inner |-> inner, hasrefs |-> hasrefs, ctx |-> ctx, data |-> Encode(w, elems)]

Unattached ==
    [m_data |-> FALSE, m_ref |-> 0, m_width |-> 0, m_size |-> 0,
     m_lbound |-> W0, m_ubound |-> W0,
     m_is_inner_bptree_node |-> FALSE, m_has_refs |-> FALSE,
     m_context_flag |-> FALSE]

\* Array::init_from_mem: read the header into the accessor's cache
init_from_mem(h, ref) ==
    [m_data |-> TRUE, m_ref |-> ref, m_width |-> h[ref].width,
     m_size |-> h[ref].size,
     m_lbound |-> lbound_for_width(h[ref].width),
     m_ubound |-> ubound_for_width(h[ref].width),
     m_is_inner_bptree_node |-> h[ref].inner, m_has_refs |-> h[ref].hasrefs,
     m_context_flag |-> h[ref].ctx]

is_attached(a) == a.m_data

\* Array::get(ndx) through the accessor
Get(h, a, ndx) == get_universal(a.m_width, h[a.m_ref].data, ndx)
Elems(h, a) == <<>> \o [i \in 1..a.m_size |-> Get(h, a, i - 1)]

NoQuery == [cond |-> "", value |-> W0, start |-> 0, end |-> 0, base |-> 0,
            sink |-> [kind |-> "", stopAt |-> 0, limit |-> 0, match_count |-> 0],
            ub |-> ""]

NoParent == [has |-> FALSE, ndx |-> 0, child_ref |-> 0, updates |-> 0]

NoChain == [pure |-> FALSE, V |-> {}]

\* no clone has been made
NoOrigin == [has |-> FALSE, root |-> 0, heap |-> [x \in Refs |-> NoBuf]]

---------------------------------------------------------------------------
(* Mutators.  A machine M is [heap, freed, arr, parent, failed, order]:    *)
(* the allocator's buffers and free_ counts, the accessor, its parent,     *)
(* the assertion that terminated the program (if any) and the refs freed   *)
(* by the operation, in order.  Each operation maps a machine to the       *)
(* machine it leaves.                                                      *)

\* refs the allocator can still hand out, and the one alloc returns
FreeRefs(h) == {r \in Refs : ~h[r].used}
NewRef(h) == CHOOSE r \in FreeRefs(h) : \A q \in FreeRefs(h) : r <= q

\* Allocator::is_read_only(m_ref)
is_read_only(M) == M.heap[M.arr.m_ref].ro

\* Node::update_parent: m_parent->update_child_ref(m_ndx_in_parent, m_ref)
update_parent(M) ==
    IF M.parent.has
    THEN [M EXCEPT !.parent.child_ref = M.arr.m_ref, !.parent.updates = @ + 1]
    ELSE M

\* the copy: a fresh writable buffer with the same header and data; the
\* accessor's ref is switched to it and the parent is told
do_copy_on_write(M, new_ref) ==
    update_parent([M EXCEPT !.heap[new_ref] = [M.heap[M.arr.m_ref] EXCEPT !.ro = FALSE],
                            !.arr.m_ref = new_ref])

\* Node::copy_on_write
copy_on_write(M) ==
    IF is_read_only(M) THEN do_copy_on_write(M, NewRef(M.heap)) ELSE M

\* the array re-encoded at width w
Reencode(M, w) ==
    [M EXCEPT !.heap[M.arr.m_ref].width = w,
              !.heap[M.arr.m_ref].data = Encode(w, Elems(M.heap, M.arr)),
              !.arr.m_width = w,
              !.arr.m_lbound = lbound_for_width(w),
              !.arr.m_ubound = ubound_for_width(w)]

\* Array::do_ensure_minimum_width: re-encode at the width the value needs
do_ensure_minimum_width(M, value) ==
    Reencode(copy_on_write(M), bit_width(value))

ensure_minimum_width_always(M, value) ==
    do_ensure_minimum_width(M, value)

\* Array::ensure_minimum_width
ensure_minimum_width(M, value) ==
    IF WSLe(M.arr.m_lbound, value) /\ WSLe(value, M.arr.m_ubound) THEN M
    ELSE do_ensure_minimum_width(M, value)

\* the width-specialised setter on the accessor's buffer
set_store(M, ndx, value) ==
    [M EXCEPT !.heap[M.arr.m_ref].data = set_direct(M.arr.m_width, @, ndx, value)]

\* Array::set: copy on write, widen if needed, store
set(M, ndx, value) ==
    set_store(ensure_minimum_width(copy_on_write(M), value), ndx, value)

\* the elements with value inserted before index ndx, stored at the width
\* the array has
insert_store(M, ndx, value) ==
    [M EXCEPT !.heap[M.arr.m_ref].size = @ + 1,
              !.heap[M.arr.m_ref].data =
                  Encode(M.arr.m_width,
                         SubSeq(Elems(M.heap, M.arr), 1, ndx) \o <<value>>
                         \o SubSeq(Elems(M.heap, M.arr), ndx + 1, M.arr.m_size)),
              !.arr.m_size = @ + 1]

\* Array::insert: copy on write, widen if needed, shift and store
insert(M, ndx, value) ==
    insert_store(ensure_minimum_width(copy_on_write(M), value), ndx, value)

\* Array::add
add(M, value) == insert(M, M.arr.m_size, value)

\* `v + diff` on int_fast64_t overflows: the operands have one sign and the
\* 64-bit sum the other
adjust_overflows(v, diff) ==
    WIsNeg(v) = WIsNeg(diff) /\ WIsNeg(WAdd(v, diff)) # WIsNeg(v)

adjust_in_place(M, ndx, diff, ub) ==
    IF diff # W0
    THEN set_store(copy_on_write(M), ndx, WAdd(Get(M.heap, M.arr, ndx), diff))
    ELSE M

\* Array::adjust(ndx, diff); signed overflow of `v + diff` is undefined:
\* the build stores the wrapped sum ("wrap") or traps ("trap")
adjust(M, ndx, diff, ub) ==
    IF diff # W0
    THEN IF adjust_overflows(Get(M.heap, M.arr, ndx), diff) /\ ub = "trap"
         THEN [M EXCEPT !.failed = "signed integer overflow in v + diff"]
         ELSE set(M, ndx, WAdd(Get(M.heap, M.arr, ndx), diff))
    ELSE M

\* for (size_t i = begin; i != end; ++i) adjust(i, diff)
RECURSIVE adjust_loop(_, _, _, _, _)
adjust_loop(M, i, end, diff, ub) ==
    IF i = end \/ M.failed # "" THEN M
    ELSE adjust_loop(adjust(M, i, diff, ub), i + 1, end, diff, ub)

adjust_range_inclusive(M, begin, end, diff, ub) ==
    IF diff # W0 THEN adjust_loop(M, begin, end + 1, diff, ub) ELSE M

\* Array::adjust(begin, end, diff)
adjust_range(M, begin, end, diff, ub) ==
    IF diff # W0 THEN adjust_loop(M, begin, end, diff, ub) ELSE M

\* Array::update_child_ref: the accessor, as the parent of a relocated child
update_child_ref(M, child_ndx, new_ref) == set(M, child_ndx, FromNat(new_ref))

\* Array::create_array: a fresh buffer of the width the value needs, filled
\* with size copies of it; an inner B+-tree node also has refs
create_array(type, context_flag, size, value) ==
    MakeBuf(bit_width(value), <<>> \o [i \in 1..size |-> value],
            type = "inner", type \in {"inner", "has_refs"}, context_flag)

\* attach the accessor to the buffer just placed at new_ref
create_attach(M, new_ref) ==
    [M EXCEPT !.arr = init_from_mem(M.heap, new_ref)]

create_widest(M, type, context_flag, size, value) ==
    create_attach([M EXCEPT !.heap[NewRef(M.heap)] =
                      MakeBuf(64, <<>> \o [i \in 1..size |-> value],
                              type = "inner", type \in {"inner", "has_refs"},
                              context_flag)],
                  NewRef(M.heap))

\* Array::create
create(M, type, context_flag, size, value) ==
    create_attach([M EXCEPT !.heap[NewRef(M.heap)] =
                      create_array(type, context_flag, size, value)],
                  NewRef(M.heap))

\* Array::get_type, with the outcome of its REALM_ASSERT_DEBUG
get_type(a) ==
    IF a.m_is_inner_bptree_node
    THEN [type |-> "type_InnerBptreeNode",
          failed |-> IF a.m_has_refs THEN "" ELSE "REALM_ASSERT_DEBUG(m_has_refs)"]
    ELSE [type |-> IF a.m_has_refs THEN "type_HasRefs" ELSE "type_Normal",
          failed |-> ""]

\* Array::set_has_refs
set_has_refs(M, value) ==
    IF M.arr.m_has_refs # value
    THEN IF is_read_only(M)
         THEN [M EXCEPT !.failed = "REALM_ASSERT(!is_read_only())"]
         ELSE [M EXCEPT !.arr.m_has_refs = value,
                        !.heap[M.arr.m_ref].hasrefs = value]
    ELSE M

\* m_context_flag = value; set_context_flag_in_header(value, get_header())
context_flag_store(M, value) ==
    [M EXCEPT !.arr.m_context_flag = value, !.heap[M.arr.m_ref].ctx = value]

set_context_flag_in_place(M, value) ==
    IF M.arr.m_context_flag # value THEN context_flag_store(M, value) ELSE M

\* Array::set_context_flag
set_context_flag(M, value) ==
    IF M.arr.m_context_flag # value
    THEN context_flag_store(copy_on_write(M), value)
    ELSE M

\* Allocator::free_(ref)
free_(M, ref) ==
    [M EXCEPT !.heap[ref].live = FALSE, !.freed[ref] = @ + 1,
              !.order = Append(@, ref)]

\* RefOrTagged::is_ref of a non-null element: the low bit is clear
is_ref(v) == v[1] % 2 = 0

\* Array::destroy_children and the static Array::destroy_deep(ref, alloc):
\* children [i, size) of the buffer at ref, skipping null and tagged elements
RECURSIVE destroy_children(_, _, _)
RECURSIVE destroy_deep_ref(_, _)
destroy_child(M, v) ==
    IF v = W0 \/ ~is_ref(v) THEN M ELSE destroy_deep_ref(M, ToNat(v))

destroy_children(M, ref, i) ==
    IF i >= M.heap[ref].size THEN M
    ELSE destroy_children(destroy_child(M, BufGet(M.heap[ref], i)), ref, i + 1)

destroy_deep_ref_any(M, ref) ==
    free_(destroy_children(M, ref, 0), ref)

destroy_deep_ref(M, ref) ==
    IF ~M.heap[ref].hasrefs THEN free_(M, ref)
    ELSE free_(destroy_children(M, ref, 0), ref)

\* free the accessor's buffer and detach: m_data = nullptr
destroy_self(M) ==
    [free_(M, M.arr.m_ref) EXCEPT !.arr.m_data = FALSE]

destroy_deep_by_ref(M) ==
    IF M.arr.m_ref = 0 THEN M
    ELSE IF M.arr.m_has_refs
    THEN destroy_self(destroy_children(M, M.arr.m_ref, 0))
    ELSE destroy_self(M)

\* Array::destroy_deep
destroy_deep(M) ==
    IF ~is_attached(M.arr) THEN M
    ELSE IF M.arr.m_has_refs
    THEN destroy_self(destroy_children(M, M.arr.m_ref, 0))
    ELSE destroy_self(M)

\* the elements [i, end) copied in ascending order to dest, dest + 1, ...
RECURSIVE move_loop(_, _, _, _, _)
move_loop(w, data, i, end, dest) ==
    IF i >= end THEN data
    ELSE move_loop(w, set_direct(w, data, dest, get_universal(w, data, i)),
                   i + 1, end, dest + 1)

\* the same elements copied in descending order
RECURSIVE move_loop_backward(_, _, _, _, _)
move_loop_backward(w, data, begin, i, dest) ==
    IF i <= begin THEN data
    ELSE move_loop_backward(w,
            set_direct(w, data, dest + (i - 1 - begin),
                       get_universal(w, data, i - 1)),
            begin, i - 1, dest)

\* the block copy of Array::move on the accessor's buffer
move_store(M, begin, end, dest_begin) ==
    [M EXCEPT !.heap[M.arr.m_ref].data =
                  move_loop(M.arr.m_width, @, begin, end, dest_begin)]

move_backward(M, begin, end, dest_begin) ==
    [copy_on_write(M) EXCEPT !.heap[copy_on_write(M).arr.m_ref].data =
        move_loop_backward(M.arr.m_width, @, begin, end, dest_begin)]

\* Array::move(begin, end, dest_begin): dest_begin must not be in
\* [begin, end) and the destination must lie within the array
move(M, begin, end, dest_begin) ==
    IF ~(begin <= end /\ end <= M.arr.m_size)
    THEN [M EXCEPT !.failed = "REALM_ASSERT_3(end, <=, m_size)"]
    ELSE IF dest_begin >= begin /\ dest_begin < end
    THEN [M EXCEPT !.failed = "REALM_ASSERT(!(dest_begin >= begin && dest_begin < end))"]
    ELSE IF end - begin > M.arr.m_size - dest_begin
    THEN [M EXCEPT !.failed = "REALM_ASSERT_3(end - begin, <=, m_size - dest_begin)"]
    ELSE move_store(copy_on_write(M), begin, end, dest_begin)

\* m_size = size; set_header_size(m_size)
size_store(M, size) ==
    [M EXCEPT !.arr.m_size = size, !.heap[M.arr.m_ref].size = size]

erase_keep_size(M, ndx) ==
    move(M, ndx + 1, M.arr.m_size, ndx)

\* Array::erase(ndx)
erase(M, ndx) ==
    LET N == move(M, ndx + 1, M.arr.m_size, ndx)
    IN  IF N.failed # "" THEN N ELSE size_store(N, N.arr.m_size - 1)

\* Array::erase(begin, end)
erase_range(M, begin, end) ==
    IF begin # end
    THEN LET N == move(M, end, M.arr.m_size, begin)
         IN  IF N.failed # "" THEN N
             ELSE size_store(N, N.arr.m_size - (end - begin))
    ELSE M

\* the tail of truncate: the new size in the accessor and in the header;
\* a cleared array drops its width back to zero
truncate_store(M, new_size) ==
    IF new_size = 0
    THEN [size_store(M, 0) EXCEPT !.heap[M.arr.m_ref].width = 0,
                                  !.arr.m_width = 0,
                                  !.arr.m_lbound = lbound_for_width(0),
                                  !.arr.m_ubound = ubound_for_width(0)]
    ELSE size_store(M, new_size)

\* Array::truncate
truncate(M, new_size) ==
    IF ~is_attached(M.arr) THEN [M EXCEPT !.failed = "REALM_ASSERT(is_attached())"]
    ELSE IF new_size > M.arr.m_size
    THEN [M EXCEPT !.failed = "REALM_ASSERT_3(new_size, <=, m_size)"]
    ELSE IF new_size = M.arr.m_size THEN M
    ELSE truncate_store(copy_on_write(M), new_size)

\* destroy_children(offset) on the accessor's buffer, if it has refs
destroy_children_from(M, offset) ==
    IF M.arr.m_has_refs THEN destroy_children(M, M.arr.m_ref, offset) ELSE M

truncate_and_destroy_all(M, new_size) ==
    IF ~is_attached(M.arr) THEN [M EXCEPT !.failed = "REALM_ASSERT(is_attached())"]
    ELSE IF new_size > M.arr.m_size
    THEN [M EXCEPT !.failed = "REALM_ASSERT_3(new_size, <=, m_size)"]
    ELSE IF new_size = M.arr.m_size THEN M
    ELSE truncate_store(destroy_children_from(copy_on_write(M), 0), new_size)

\* Array::truncate_and_destroy_children
truncate_and_destroy_children(M, new_size) ==
    IF ~is_attached(M.arr) THEN [M EXCEPT !.failed = "REALM_ASSERT(is_attached())"]
    ELSE IF new_size > M.arr.m_size
    THEN [M EXCEPT !.failed = "REALM_ASSERT_3(new_size, <=, m_size)"]
    ELSE IF new_size = M.arr.m_size THEN M
    ELSE truncate_store(destroy_children_from(copy_on_write(M), new_size),
                        new_size)

\* Array::clear
clear(M) == truncate(M, 0)

\* Array::clear_and_destroy_children
clear_and_destroy_children(M) == truncate_and_destroy_children(M, 0)

\* the byte-for-byte copy of an array without refs: the header and the
\* bytes its elements take, in a writable buffer
clone_bytes(b) ==
    [b EXCEPT !.ro = FALSE,
              !.data = SubSeq(@, 1, calc_byte_size(b.size, b.width) - header_size)]

\* new_array.add(value): the value appended, the width grown to hold it
clone_add(b, value) ==
    MakeBuf(IF bit_width(value) > b.width THEN bit_width(value) ELSE b.width,
            Append(BufElems(b), value), b.inner, b.hasrefs, b.ctx)

\* Array::clone: [M, ref], the machine with the copy in it and the copy's
\* ref.  An array with refs is rebuilt in a new array created first, each
\* child cloned and its clone's ref added; null and tagged elements are
\* added as they are
RECURSIVE clone(_, _)
RECURSIVE clone_elements(_, _, _, _)
clone_elements(M, ref, new_ref, i) ==
    IF i >= M.heap[ref].size THEN [M |-> M, ref |-> new_ref]
    ELSE IF BufGet(M.heap[ref], i) # W0 /\ is_ref(BufGet(M.heap[ref], i))
    THEN LET sub == clone(M, ToNat(BufGet(M.heap[ref], i)))
         IN  clone_elements(
                [sub.M EXCEPT !.heap[new_ref] = clone_add(@, FromNat(sub.ref))],
                ref, new_ref, i + 1)
    ELSE clone_elements(
            [M EXCEPT !.heap[new_ref] = clone_add(@, BufGet(M.heap[ref], i))],
            ref, new_ref, i + 1)

clone(M, ref) ==
    IF ~M.heap[ref].hasrefs
    THEN [M |-> [M EXCEPT !.heap[NewRef(M.heap)] = clone_bytes(M.heap[ref])],
          ref |-> NewRef(M.heap)]
    ELSE clone_elements(
            [M EXCEPT !.heap[NewRef(M.heap)] =
                MakeBuf(0, <<>>, M.heap[ref].inner, TRUE, M.heap[ref].ctx)],
            ref, NewRef(M.heap), 0)

clone_deep_shared(M) ==
    [M |-> [M EXCEPT !.heap[NewRef(M.heap)] =
                         [M.heap[M.arr.m_ref] EXCEPT !.ro = FALSE]],
     ref |-> NewRef(M.heap)]

\* Array::clone_deep
clone_deep(M) == clone(M, M.arr.m_ref)

---------------------------------------------------------------------------
(* Scans: one attached array, one find (optionally resumed), per behaviour *)

\* element values of the scanned arrays, per width: <<fill, spike>> pairs
ScanPairs(w) ==
    IF w = 0 THEN {<<W0, W0>>}
    ELSE IF w = 1 THEN {<<W0, W1>>, <<W1, W0>>}
    ELSE IF w = 2 THEN {<<W0, FromNat(3)>>, <<W1, W0>>, <<FromNat(2), W1>>}
    ELSE IF w = 4 THEN {<<W0, FromNat(15)>>, <<FromNat(7), W0>>, <<FromNat(8), FromNat(7)>>}
    ELSE {<<W0, FromNat(5)>>, <<FromNat(5), lbound_for_width(w)>>,
          <<FromInt(-1), ubound_for_width(w)>>}

\* comparison values: stored values, and values outside the representable range
QueryValues(w) ==
    IF w = 0 THEN {W0, W1, FromInt(-1)}
    ELSE IF w = 1 THEN {W0, W1, FromNat(2), FromInt(-1)}
    ELSE IF w = 2 THEN {W0, W1, FromNat(3), FromNat(4), FromInt(-1)}
    ELSE IF w = 4 THEN {W0, FromNat(7), FromNat(8), FromNat(15), FromNat(16)}
    ELSE IF w = 64 THEN {W0, FromNat(5), FromInt(-1), lbound_for_width(w),
                         ubound_for_width(w)}
    ELSE {W0, FromNat(5), FromInt(-1), lbound_for_width(w),
          WAdd(ubound_for_width(w), W1)}

\* MaxChunks full 64-bit chunks, one more byte-aligned chunk end, one element
ScanSize(w) == ((MaxChunks * 64 + 8) \div no0(w)) + 1

Lanes(w) == 64 \div no0(w)

\* an array that holds fill everywhere except spike at every index = r mod k
Pattern(w, fill, spike, k, r) ==
    <<>> \o [i \in 1..ScanSize(w) |-> IF (i - 1) % k = r THEN spike ELSE fill]

\* <<k, r>>: a spike every third element; a single spike in the last lane of
\* the first chunk; a single spike in the second lane of the second chunk
SpikePlaces(w) ==
    {<<3, 0>>, <<ScanSize(w) + 1, Lanes(w) - 1>>, <<ScanSize(w) + 1, Lanes(w) + 1>>}

Sinks ==
    {[kind |-> "callback", stopAt |-> n, limit |-> 0, match_count |-> 0] : n \in {0, 2}}

FindFirstSink == [kind |-> "findfirst", stopAt |-> 0, limit |-> 1, match_count |-> 0]

\* <<start, end>> of a call: the whole array; an unaligned start and an
\* unaligned end; a whole 64-bit chunk
ScanRanges(w) == {<<0, npos>>, <<1, Lanes(w) + 2>>, <<Lanes(w), 2 * Lanes(w)>>}

InitScan ==
    \E w \in Widths :
      \E pair \in ScanPairs(w), place \in SpikePlaces(w) :
        /\ heap = [x \in Refs |->
                    IF x = 8
                    THEN MakeBuf(w, Pattern(w, pair[1], pair[2], place[1], place[2]),
                                 FALSE, FALSE, FALSE)
                    ELSE NoBuf]
        /\ arr = init_from_mem(heap, 8)
        /\ freed = [x \in Refs |-> 0]
        /\ parent = NoParent
        /\ query = NoQuery
        /\ reported = <<>>
        /\ findRet = TRUE
        /\ firstRet = not_found
        /\ lastOp = [op |-> "attach"]
        /\ failed = ""
        /\ chain = NoChain
        /\ steps = 0
        /\ origin = NoOrigin

\* the scan context of the accessor for a query
Cx(h, a, q) ==
    [w |-> a.m_width, data |-> h[a.m_ref].data, value |-> q.value,
     base |-> q.base, sink |-> q.sink]

RunFind(h, a, q) ==
    find_optimized(Cx(h, a, q), a.m_size, q.cond, q.start, q.end, ScanStart, q.ub)

\* outcomes of the shift by 64 in compare_equality; no other path has one
UbChoices(c) == IF c \in {"Equal", "NotEqual"} THEN {"same", "zero"} ELSE {"same"}

ValidRange(a, start, end) ==
    start <= a.m_size /\ (end = npos \/ (end <= a.m_size /\ start <= end))

\* bool Array::find<cond>(value, start, end, baseindex, state, callback)
Find(c, value, start, end, sink, ub) ==
    /\ lastOp.op = "attach"
    /\ is_attached(arr)
    /\ ValidRange(arr, start, end)
    /\ query' = [cond |-> c, value |-> value, start |-> start, end |-> end,
                 base |-> 0, sink |-> sink, ub |-> ub]
    /\ \E st \in {RunFind(heap, arr, query')} :
           /\ reported' = st.out
           /\ findRet' = st.cont
           /\ failed' = st.fail
           /\ lastOp' = [op |-> "find", calls |-> st.calls, offers |-> st.offers,
                         compared |-> st.compared]
    /\ steps' = steps + 1
    /\ UNCHANGED <<heap, freed, arr, parent, chain, firstRet, origin>>

\* a caller resuming a logical scan: find over [query.end, npos) appended to
\* what the earlier call over [query.start, query.end) reported
FindResume ==
    /\ lastOp.op = "find"
    /\ findRet /\ failed = ""
    /\ query.end # npos /\ query.sink.stopAt = 0
    /\ query' = [query EXCEPT !.end = npos]
    /\ \E st \in {RunFind(heap, arr, [query EXCEPT !.start = query.end, !.end = npos])} :
           /\ reported' = reported \o st.out
           /\ findRet' = st.cont
           /\ failed' = st.fail
    /\ lastOp' = [op |-> "find_resume", split |-> query.end]
    /\ steps' = steps + 1
    /\ UNCHANGED <<heap, freed, arr, parent, chain, firstRet, origin>>

\* size_t Array::find_first<cond>(value, start, end)
FindFirst(c, value, start, end) ==
    /\ lastOp.op = "attach"
    /\ is_attached(arr)
    /\ ValidRange(arr, start, end)
    /\ query' = [cond |-> c, value |-> value, start |-> start, end |-> end,
                 base |-> 0, sink |-> FindFirstSink, ub |-> "same"]
    /\ \E st \in {RunFind(heap, arr, query')} :
           /\ reported' = st.out
           /\ findRet' = st.cont
           /\ failed' = st.fail
           /\ firstRet' = IF st.out = <<>> THEN not_found
                          ELSE st.out[Len(st.out)][1]
           /\ lastOp' = [op |-> "find_first", calls |-> st.calls,
                         offers |-> st.offers, compared |-> st.compared]
    /\ steps' = steps + 1
    /\ UNCHANGED <<heap, freed, arr, parent, chain, origin>>

NextScan ==
    \/ \E c \in Conds, value \in QueryValues(arr.m_width),
          range \in ScanRanges(arr.m_width), sink \in Sinks :
         \E ub \in UbChoices(c) :
            Find(c, value, range[1], range[2], sink, ub)
    \/ FindResume
    \/ \E c \in Conds, value \in QueryValues(arr.m_width),
          range \in ScanRanges(arr.m_width) :
            FindFirst(c, value, range[1], range[2])

SpecScan == InitScan /\ [][NextScan]_vars

---------------------------------------------------------------------------
(* Mutation: an accessor that is created (or attached to a small tree),    *)
(* mutated, committed to a read-only snapshot and destroyed                *)

Mach ==
    [heap |-> heap, freed |-> freed, arr |-> arr, parent |-> parent,
     failed |-> failed, order |-> <<>>]

Apply(M) ==
    /\ heap' = M.heap
    /\ freed' = M.freed
    /\ arr' = M.arr
    /\ parent' = M.parent
    /\ failed' = M.failed

Running == failed = "" /\ steps < MaxSteps

ScanIdle == UNCHANGED <<query, reported, findRet, firstRet>>

\* the allocator can serve the copy a mutator of the accessor may need
CanCopy == ~heap[arr.m_ref].ro \/ FreeRefs(heap) # {}

\* a null or a tagged integer: an element of a has_refs array that names no
\* child
NullOrTagged(v) == v = W0 \/ ~is_ref(v)

\* the ref of a live buffer
LiveRef(h, v) ==
    v # W0 /\ is_ref(v) /\ v[2] = 0 /\ v[3] = 0 /\ v[4] = 0 /\ v[1] \in Refs
    /\ h[v[1]].live

\* the children of the buffer at ref: its non-null even elements
ChildRefs(h, ref) ==
    {ToNat(BufGet(h[ref], i)) :
        i \in {j \in 0..(h[ref].size - 1) : ~NullOrTagged(BufGet(h[ref], j))}}

\* the buffers reachable from those of S through the elements of has_refs
\* buffers
RECURSIVE Descendants(_, _)
Descendants(h, S) ==
    LET T == S \cup UNION {IF h[r].hasrefs THEN ChildRefs(h, r) ELSE {} : r \in S}
    IN  IF T = S THEN S ELSE Descendants(h, T)

\* the caller stores nulls and tagged integers in a has_refs array; the
\* refs of children come from their accessors, through update_child_ref
Storable(v) == arr.m_has_refs => NullOrTagged(v)

\* what an operation on the attached accessor finds: the ref and the buffer
\* it is invoked on, and whether the operation has anything to change
Before(changes) ==
    [ref |-> arr.m_ref, ro |-> heap[arr.m_ref].ro, buf |-> heap[arr.m_ref],
     changes |-> changes]

CreateValues ==
    {W0, W1, FromNat(3), FromNat(7), FromInt(-1), FromNat(300), FromNat(70000),
     WPow2(40)}

\* <<type, context_flag, size, value>>
CreateArgs ==
    {<<"normal", FALSE, 2, v>> : v \in CreateValues}
    \cup {<<"normal", TRUE, 0, W0>>, <<"has_refs", FALSE, 2, W0>>,
          <<"inner", FALSE, 1, W1>>}

SetValues(a) ==
    {lbound_for_width(a.m_width), ubound_for_width(a.m_width), W1, WPow2(40)}

InsertValues == {FromNat(7), FromInt(-1)}
AddValues == {FromNat(300)}
AdjustDiffs == {W1, FromInt(-1)}
AdjustRangeDiffs == {W0, W1, FromInt(-1), FromNat(200)}
\* <<begin, end>>
AdjustRanges == {<<0, 0>>, <<0, 1>>, <<0, 2>>, <<1, 2>>, <<1, 3>>}
EnsureValues == {W1, FromNat(7), FromInt(-1), FromNat(70000)}

\* an unattached accessor over an empty allocator
InitFresh ==
    /\ heap = [x \in Refs |-> NoBuf]
    /\ arr = Unattached
    /\ parent = NoParent
    /\ steps = 0

\* an accessor attached to the root of a tree: the root at ref 8 holds the
\* refs of a leaf and of a node, a tagged integer and a null; the node at
\* ref 24 holds a tagged integer and the ref of the leaf at 32; the leaf at
\* 16 holds integers, one of them equal to a ref; the root's parent holds
\* the root's ref
InitTree ==
    /\ heap = [x \in Refs |->
                IF x = 8
                THEN MakeBuf(8, <<FromNat(16), FromNat(3), W0, FromNat(24)>>,
                             FALSE, TRUE, FALSE)
                ELSE IF x = 16
                THEN MakeBuf(8, <<FromNat(32), FromNat(5)>>, FALSE, FALSE, FALSE)
                ELSE IF x = 24
                THEN MakeBuf(8, <<W1, FromNat(32)>>, FALSE, TRUE, FALSE)
                ELSE IF x = 32
                THEN MakeBuf(1, <<W1, W0>>, FALSE, FALSE, FALSE)
                ELSE NoBuf]
    /\ arr = init_from_mem(heap, 8)
    /\ parent = [has |-> TRUE, ndx |-> 0, child_ref |-> 8, updates |-> 0]
    /\ steps = 1

Init ==
    /\ InitFresh \/ InitTree
    /\ freed = [x \in Refs |-> 0]
    /\ query = NoQuery
    /\ reported = <<>>
    /\ findRet = TRUE
    /\ firstRet = not_found
    /\ lastOp = [op |-> "init"]
    /\ failed = ""
    /\ chain = NoChain
    /\ origin = NoOrigin

Create(type, context_flag, size, value) ==
    /\ Running
    /\ ~is_attached(arr)
    /\ FreeRefs(heap) # {}
    /\ \E M \in {create(Mach, type, context_flag, size, value)} : Apply(M)
    /\ lastOp' = [op |-> "create", ndx |-> 0, value |-> value]
    /\ chain' = [pure |-> TRUE, V |-> {value}]
    /\ steps' = steps + 1
    /\ UNCHANGED origin
    /\ ScanIdle

Set(ndx, value) ==
    /\ Running
    /\ is_attached(arr) /\ 0 <= ndx /\ ndx < arr.m_size
    /\ CanCopy /\ Storable(value)
    /\ \E M \in {set(Mach, ndx, value)} : Apply(M)
    /\ lastOp' = [op |-> "set", ndx |-> ndx, value |-> value,
                  width |-> arr.m_width, before |-> Before(TRUE)]
    /\ chain' = NoChain
    /\ steps' = steps + 1
    /\ UNCHANGED origin
    /\ ScanIdle

Insert(ndx, value) ==
    /\ Running
    /\ is_attached(arr) /\ ndx <= arr.m_size /\ arr.m_size < MaxSize
    /\ CanCopy /\ Storable(value)
    /\ \E M \in {insert(Mach, ndx, value)} : Apply(M)
    /\ lastOp' = [op |-> "insert", ndx |-> ndx, value |-> value,
                  before |-> Before(TRUE)]
    /\ chain' = NoChain
    /\ steps' = steps + 1
    /\ UNCHANGED origin
    /\ ScanIdle

Add(value) ==
    /\ Running
    /\ is_attached(arr) /\ arr.m_size < MaxSize
    /\ CanCopy /\ Storable(value)
    /\ \E M \in {add(Mach, value)} : Apply(M)
    /\ lastOp' = [op |-> "add", ndx |-> arr.m_size, value |-> value,
                  before |-> Before(TRUE)]
    /\ chain' = NoChain
    /\ steps' = steps + 1
    /\ UNCHANGED origin
    /\ ScanIdle

\* the outcomes of the additions of diff to the elements [begin, end): the
\* sums, or on a signed overflow one of what the build can do
AdjustOutcomes(begin, end, diff) ==
    IF \E i \in begin..(end - 1) : adjust_overflows(Get(heap, arr, i), diff)
    THEN {"wrap", "trap"}
    ELSE {"sum"}

Adjust(ndx, diff) ==
    /\ Running
    /\ is_attached(arr) /\ 0 <= ndx /\ ndx < arr.m_size
    /\ CanCopy /\ Storable(WAdd(Get(heap, arr, ndx), diff))
    /\ \E ub \in AdjustOutcomes(ndx, ndx + 1, diff) :
          \E M \in {adjust(Mach, ndx, diff, ub)} :
             /\ Apply(M)
             /\ lastOp' = [op |-> IF M.failed = "" THEN "adjust" ELSE "adjust_trap",
                           ndx |-> ndx, begin |-> ndx, end |-> ndx + 1,
                           diff |-> diff,
                           value |-> WAdd(Get(heap, arr, ndx), diff),
                           before |-> Before(diff # W0)]
    /\ chain' = NoChain
    /\ steps' = steps + 1
    /\ UNCHANGED origin
    /\ ScanIdle

AdjustRange(begin, end, diff) ==
    /\ Running
    /\ is_attached(arr) /\ 0 <= begin /\ begin <= end /\ end <= arr.m_size
    /\ CanCopy
    /\ \A i \in begin..(end - 1) : Storable(WAdd(Get(heap, arr, i), diff))
    /\ \E ub \in AdjustOutcomes(begin, end, diff) :
          \E M \in {adjust_range(Mach, begin, end, diff, ub)} :
             /\ Apply(M)
             /\ lastOp' = [op |-> IF M.failed = "" THEN "adjust_range"
                                  ELSE "adjust_trap",
                           ndx |-> begin, begin |-> begin, end |-> end,
                           diff |-> diff,
                           value |-> W0,
                           before |-> Before(diff # W0 /\ begin # end)]
    /\ chain' = NoChain
    /\ steps' = steps + 1
    /\ UNCHANGED origin
    /\ ScanIdle

EnsureMinimumWidth(value) ==
    /\ Running
    /\ is_attached(arr)
    /\ CanCopy
    /\ \E M \in {ensure_minimum_width(Mach, value)} : Apply(M)
    /\ lastOp' = [op |-> "ensure_minimum_width", value |-> value,
                  before |-> Before(~Fits(value, arr.m_width))]
    /\ chain' = [chain EXCEPT !.V = IF chain.pure THEN @ \cup {value} ELSE @]
    /\ steps' = steps + 1
    /\ UNCHANGED origin
    /\ ScanIdle

SetContextFlag(value) ==
    /\ Running
    /\ is_attached(arr)
    /\ CanCopy
    /\ \E M \in {set_context_flag(Mach, value)} : Apply(M)
    /\ lastOp' = [op |-> "set_context_flag", flag |-> value,
                  before |-> Before(value # arr.m_context_flag)]
    /\ steps' = steps + 1
    /\ UNCHANGED chain
    /\ UNCHANGED origin
    /\ ScanIdle

SetHasRefs(value) ==
    /\ Running
    /\ is_attached(arr)
    /\ value => \A i \in 0..(arr.m_size - 1) : NullOrTagged(Get(heap, arr, i))
    /\ \E M \in {set_has_refs(Mach, value)} : Apply(M)
    /\ lastOp' = [op |-> "set_has_refs", flag |-> value,
                  before |-> Before(value # arr.m_has_refs)]
    /\ steps' = steps + 1
    /\ UNCHANGED chain
    /\ UNCHANGED origin
    /\ ScanIdle

\* a commit: every live buffer becomes part of a read-only snapshot
MakeReadOnly ==
    /\ Running
    /\ is_attached(arr)
    /\ \E r \in Refs : heap[r].live /\ ~heap[r].ro
    /\ heap' = [r \in Refs |-> IF heap[r].live THEN [heap[r] EXCEPT !.ro = TRUE]
                               ELSE heap[r]]
    /\ lastOp' = [op |-> "commit"]
    /\ steps' = steps + 1
    /\ UNCHANGED <<freed, arr, parent, failed, chain>>
    /\ UNCHANGED origin
    /\ ScanIdle

\* the accessor of the child at index ndx copies its read-only buffer on
\* write and tells its parent, this accessor
ChildCopyOnWrite(ndx) ==
    /\ Running
    /\ is_attached(arr) /\ arr.m_has_refs /\ 0 <= ndx /\ ndx < arr.m_size
    /\ LiveRef(heap, Get(heap, arr, ndx))
    /\ heap[ToNat(Get(heap, arr, ndx))].ro
    /\ Cardinality(FreeRefs(heap)) >= (IF heap[arr.m_ref].ro THEN 2 ELSE 1)
    /\ \E M \in {update_child_ref(
                    [Mach EXCEPT !.heap[NewRef(heap)] =
                        [heap[ToNat(Get(heap, arr, ndx))] EXCEPT !.ro = FALSE]],
                    ndx, NewRef(heap))} : Apply(M)
    /\ lastOp' = [op |-> "child_copy_on_write", ndx |-> ndx,
                  value |-> FromNat(NewRef(heap)), before |-> Before(TRUE)]
    /\ chain' = NoChain
    /\ steps' = steps + 1
    /\ UNCHANGED origin
    /\ ScanIdle

DestroyDeep ==
    /\ Running
    /\ \E M \in {destroy_deep(Mach)} :
           /\ Apply(M)
           /\ lastOp' = [op |-> "destroy_deep", order |-> M.order]
    /\ chain' = NoChain
    /\ steps' = steps + 1
    /\ UNCHANGED origin
    /\ ScanIdle

\* the moved elements of a has_refs array name no child: a child has one
\* parent slot
Movable(begin, end) ==
    arr.m_has_refs => \A i \in begin..(end - 1) : NullOrTagged(Get(heap, arr, i))

\* <<begin, end, dest_begin>>
MoveArgs == {<<1, 3, 0>>, <<1, 4, 0>>, <<0, 1, 1>>, <<0, 2, 2>>}

\* <<begin, end>>
EraseRanges == {<<0, arr.m_size>>, <<1, 3>>, <<1, 1>>}

TruncateSizes == {1, 3}

Move(begin, end, dest_begin) ==
    /\ Running
    /\ is_attached(arr) /\ begin <= end /\ end <= arr.m_size
    /\ ~(dest_begin >= begin /\ dest_begin < end)
    /\ end - begin <= arr.m_size - dest_begin
    /\ CanCopy /\ Movable(begin, end)
    /\ \E M \in {move(Mach, begin, end, dest_begin)} : Apply(M)
    /\ lastOp' = [op |-> "move", begin |-> begin, end |-> end,
                  dest |-> dest_begin, before |-> Before(TRUE)]
    /\ chain' = NoChain
    /\ steps' = steps + 1
    /\ UNCHANGED origin
    /\ ScanIdle

Erase(ndx) ==
    /\ Running
    /\ is_attached(arr) /\ 0 <= ndx /\ ndx < arr.m_size
    /\ CanCopy
    /\ \E M \in {erase(Mach, ndx)} : Apply(M)
    /\ lastOp' = [op |-> "erase", begin |-> ndx, end |-> ndx + 1,
                  order |-> <<>>, before |-> Before(TRUE)]
    /\ chain' = NoChain
    /\ steps' = steps + 1
    /\ UNCHANGED origin
    /\ ScanIdle

EraseRange(begin, end) ==
    /\ Running
    /\ is_attached(arr) /\ begin <= end /\ end <= arr.m_size
    /\ CanCopy
    /\ \E M \in {erase_range(Mach, begin, end)} : Apply(M)
    /\ lastOp' = [op |-> "erase_range", begin |-> begin, end |-> end,
                  order |-> <<>>, before |-> Before(begin # end)]
    /\ chain' = NoChain
    /\ steps' = steps + 1
    /\ UNCHANGED origin
    /\ ScanIdle

Truncate(new_size) ==
    /\ Running
    /\ is_attached(arr) /\ new_size <= arr.m_size
    /\ CanCopy
    /\ \E M \in {truncate(Mach, new_size)} : Apply(M)
    /\ lastOp' = [op |-> "truncate", begin |-> new_size, end |-> arr.m_size,
                  order |-> <<>>, before |-> Before(new_size # arr.m_size)]
    /\ chain' = NoChain
    /\ steps' = steps + 1
    /\ UNCHANGED origin
    /\ ScanIdle

TruncateAndDestroyChildren(new_size) ==
    /\ Running
    /\ is_attached(arr) /\ new_size <= arr.m_size
    /\ CanCopy
    /\ \E M \in {truncate_and_destroy_children(Mach, new_size)} :
           /\ Apply(M)
           /\ lastOp' = [op |-> "truncate_and_destroy_children",
                         begin |-> new_size, end |-> arr.m_size,
                         order |-> M.order,
                         before |-> Before(new_size # arr.m_size)]
    /\ chain' = NoChain
    /\ steps' = steps + 1
    /\ UNCHANGED origin
    /\ ScanIdle

Clear ==
    /\ Running
    /\ is_attached(arr)
    /\ CanCopy
    /\ \E M \in {clear(Mach)} : Apply(M)
    /\ lastOp' = [op |-> "clear", begin |-> 0, end |-> arr.m_size,
                  order |-> <<>>, before |-> Before(arr.m_size # 0)]
    /\ chain' = NoChain
    /\ steps' = steps + 1
    /\ UNCHANGED origin
    /\ ScanIdle

ClearAndDestroyChildren ==
    /\ Running
    /\ is_attached(arr)
    /\ CanCopy
    /\ \E M \in {clear_and_destroy_children(Mach)} :
           /\ Apply(M)
           /\ lastOp' = [op |-> "clear_and_destroy_children",
                         begin |-> 0, end |-> arr.m_size, order |-> M.order,
                         before |-> Before(arr.m_size # 0)]
    /\ chain' = NoChain
    /\ steps' = steps + 1
    /\ UNCHANGED origin
    /\ ScanIdle

\* clone_deep, and the accessor attached to the clone: the clone has no
\* parent yet
CloneDeep ==
    /\ Running
    /\ is_attached(arr) /\ ~origin.has
    /\ Cardinality(FreeRefs(heap)) >= Cardinality(Descendants(heap, {arr.m_ref}))
    /\ \E c \in {clone_deep(Mach)} :
          /\ heap' = c.M.heap
          /\ arr' = init_from_mem(c.M.heap, c.ref)
          /\ lastOp' = [op |-> "clone_deep", ref |-> c.ref]
    /\ parent' = NoParent
    /\ origin' = [has |-> TRUE, root |-> arr.m_ref, heap |-> heap]
    /\ chain' = NoChain
    /\ UNCHANGED <<freed, failed, steps>>
    /\ ScanIdle

Next ==
    \/ \E a \in CreateArgs : Create(a[1], a[2], a[3], a[4])
    \/ \E ndx \in {0, arr.m_size - 1}, value \in SetValues(arr) : Set(ndx, value)
    \/ \E value \in InsertValues : Insert(0, value)
    \/ \E value \in AddValues : Add(value)
    \/ \E diff \in AdjustDiffs : Adjust(0, diff)
    \/ \E value \in EnsureValues : EnsureMinimumWidth(value)
    \/ \E value \in BOOLEAN : SetContextFlag(value)
    \/ \E value \in BOOLEAN : SetHasRefs(value)
    \/ MakeReadOnly
    \/ \E ndx \in {0, arr.m_size - 1} : ChildCopyOnWrite(ndx)
    \/ DestroyDeep
    \/ \E a \in MoveArgs : Move(a[1], a[2], a[3])
    \/ \E ndx \in {0, 2, arr.m_size - 1} : Erase(ndx)
    \/ \E r \in EraseRanges : EraseRange(r[1], r[2])
    \/ \E new_size \in TruncateSizes : Truncate(new_size)
    \/ \E new_size \in TruncateSizes : TruncateAndDestroyChildren(new_size)
    \/ Clear
    \/ ClearAndDestroyChildren

Spec == Init /\ [][Next]_vars

---------------------------------------------------------------------------
(* Properties                                                              *)

\* the end of the range of query q over accessor a
RangeEnd(a, q) == IF q.end = npos THEN a.m_size ELSE q.end

\* the naive per-element loop: the indices of [start, end) whose element
\* satisfies the predicate against the value, ascending
NaiveIndices(h, a, q) ==
    SelectSeq(<<>> \o [i \in 1..(RangeEnd(a, q) - q.start) |-> q.start + i - 1],
              LAMBDA i : CondHolds(q.cond, Get(h, a, i), q.value))

ReportedIndices == <<>> \o [k \in 1..Len(reported) |-> reported[k][1]]

\* the first index of the tail the chunk loops leave to the scalar loop
TailStart(w) == MaxChunks * Lanes(w)

\* C1: a find whose sink never signals stop reports exactly the indices of
\* [start, end) whose element satisfies the predicate against the value,
\* each once, ascending, with the element's value: the index sequence of
\* the naive per-element loop, for every width, predicate, value and range
ScanEqualsNaive ==
    (lastOp.op = "find" /\ query.sink.stopAt = 0) =>
        /\ failed = ""
        /\ ReportedIndices = NaiveIndices(heap, arr, query)
        /\ \A k \in 1..Len(reported) :
               reported[k][2] = Get(heap, arr, reported[k][1])

\* a relational scan of a width-2 array from index 0 that reports matches
\* from the 64-bit chunks and from the tail
ScanEqualsNaiveWitness ==
    /\ lastOp.op = "find" /\ query.sink.stopAt = 0
    /\ query.cond = "Greater" /\ arr.m_width = 2 /\ query.start = 0
    /\ Len(reported) >= 3
    /\ reported[1][1] < Lanes(2)
    /\ \E k \in 1..Len(reported) : reported[k][1] >= TailStart(2)
    /\ Len(reported) < arr.m_size

\* the number of the match at which the sink of query q signals stop; 0 if
\* it never does
StopsAt(q) == IF q.sink.kind = "findfirst" THEN 1 ELSE q.sink.stopAt

\* C2: when the callback (or the sink's match) returns false for a match,
\* find reports no further match and returns false; when it never returns
\* false, find runs to the end of the range and returns true
StopOnSignal ==
    lastOp.op \in {"find", "find_first"} =>
        IF StopsAt(query) > 0 /\ Len(NaiveIndices(heap, arr, query)) >= StopsAt(query)
        THEN /\ ReportedIndices =
                    SubSeq(NaiveIndices(heap, arr, query), 1, StopsAt(query))
             /\ ~findRet
        ELSE /\ ReportedIndices = NaiveIndices(heap, arr, query)
             /\ findRet

\* an equality scan stopped at its second match inside the first 64-bit
\* chunk, with further matches left unreported
StopOnSignalWitness ==
    /\ lastOp.op = "find" /\ query.sink.stopAt = 2
    /\ query.cond = "Equal" /\ arr.m_width = 4 /\ query.start = 0
    /\ ~findRet
    /\ Len(reported) = 2 /\ reported[2][1] < Lanes(4)
    /\ Len(NaiveIndices(heap, arr, query)) > 2

\* C3: scanning [start, m) and then [m, end) with a never-stopping sink
\* reports the index sequence of one scan of [start, end), whatever the
\* alignment of m, and a scan changes no field of the array or accessor
ScanResumable ==
    /\ [](lastOp.op = "find_resume" =>
            /\ failed = "" /\ findRet
            /\ reported = RunFind(heap, arr, query).out)
    /\ [][lastOp'.op \in {"find", "find_resume", "find_first"} =>
            UNCHANGED <<heap, freed, arr, parent>>]_vars

\* a scan resumed at a split that is no multiple of the lanes of a chunk,
\* with matches on both sides of the split
ScanResumableWitness ==
    /\ lastOp.op = "find_resume"
    /\ arr.m_width \in {2, 8}
    /\ lastOp.split % Lanes(arr.m_width) # 0
    /\ \E k \in 1..Len(reported) : reported[k][1] < lastOp.split
    /\ \E k \in 1..Len(reported) : reported[k][1] >= lastOp.split
    /\ Len(reported) < arr.m_size - query.start

\* C4: find_first returns the smallest index of [start, end) whose element
\* satisfies the condition, not_found when none does, and its sink stops
\* the scan at the first match
FindFirstSmallest ==
    lastOp.op = "find_first" =>
        /\ failed = ""
        /\ firstRet = IF NaiveIndices(heap, arr, query) = <<>> THEN not_found
                      ELSE NaiveIndices(heap, arr, query)[1]
        /\ Len(reported) <= 1

\* a find_first over a whole 4-bit array whose first match is neither the
\* first element nor the only match
FindFirstSmallestWitness ==
    /\ lastOp.op = "find_first"
    /\ arr.m_width = 4 /\ query.start = 0
    /\ firstRet = 1 /\ reported = <<<<1, Get(heap, arr, 1)>>>>
    /\ Len(NaiveIndices(heap, arr, query)) > 1

\* the documented range of width w
RangeLo(w) == IF w < 8 THEN W0 ELSE WNeg(WPow2(w - 1))
RangeHi(w) == IF w = 0 THEN W0
              ELSE IF w < 8 THEN WSub(WPow2(w), W1)
              ELSE WSub(WPow2(w - 1), W1)

ElementWrites == {"create", "set", "insert", "add", "adjust"}

\* C5: every stored element lies in the range of the array's width, which
\* is [0, 2^w - 1] below 8 bits and the signed range from 8 bits on; the
\* cached bounds and width are those of the buffer; a written value is
\* stored as written, at a width whose range holds it
RangeInvariant ==
    is_attached(arr) =>
        /\ arr.m_width = heap[arr.m_ref].width
        /\ arr.m_size = heap[arr.m_ref].size
        /\ arr.m_lbound = RangeLo(arr.m_width)
        /\ arr.m_ubound = RangeHi(arr.m_width)
        /\ arr.m_lbound = lbound_for_width(arr.m_width)
        /\ arr.m_ubound = ubound_for_width(arr.m_width)
        /\ \A i \in 0..(arr.m_size - 1) :
               /\ WSLe(arr.m_lbound, Get(heap, arr, i))
               /\ WSLe(Get(heap, arr, i), arr.m_ubound)
        /\ lastOp.op \in ElementWrites =>
               /\ WSLe(arr.m_lbound, lastOp.value)
               /\ WSLe(lastOp.value, arr.m_ubound)
               /\ lastOp.ndx < arr.m_size => Get(heap, arr, lastOp.ndx) = lastOp.value

\* an adjust that took an element past the range of an 8-bit array, which
\* is 16 bits wide afterwards
RangeInvariantWitness ==
    /\ lastOp.op = "adjust"
    /\ arr.m_width = 16
    /\ lastOp.value = FromNat(128)
    /\ Get(heap, arr, 0) = FromNat(128)

\* C6: set(i, v) of a value within the range of the array's width, followed
\* by get(i), returns v, at every width, and leaves the width as it was
SetGetRoundTrip ==
    (lastOp.op = "set" /\ Fits(lastOp.value, lastOp.width)) =>
        /\ arr.m_width = lastOp.width
        /\ Get(heap, arr, lastOp.ndx) = lastOp.value

\* the lower bound of an 8-bit array written to its last element and read
\* back sign-extended
SetGetRoundTripWitness ==
    /\ lastOp.op = "set" /\ lastOp.width = 8
    /\ lastOp.ndx = 1
    /\ lastOp.value = FromInt(-128)
    /\ Get(heap, arr, 1) = FromInt(-128)

\* the smallest supported width whose range holds every value of V
MinWidthFor(V) ==
    CHOOSE w \in Widths :
        /\ \A v \in V : WSLe(RangeLo(w), v) /\ WSLe(v, RangeHi(w))
        /\ \A u \in Widths :
               u < w => \E v \in V : ~(WSLe(RangeLo(u), v) /\ WSLe(v, RangeHi(u)))

\* C7: after create, and after each ensure_minimum_width that follows it,
\* the width is the smallest supported width in which every value given so
\* far fits
WidthMinimal ==
    (chain.pure /\ is_attached(arr)) => arr.m_width = MinWidthFor(chain.V)

\* an array created 4 bits wide and widened to 32 bits by a second value
WidthMinimalWitness ==
    /\ chain.pure /\ is_attached(arr)
    /\ lastOp.op = "ensure_minimum_width"
    /\ chain.V = {FromNat(7), FromNat(70000)}
    /\ arr.m_width = 32

\* C8: ensure_minimum_width(value) changes neither the buffers nor the
\* accessor when the value lies within the cached bounds; otherwise it
\* keeps the size and every element and does not lower the width
EnsureFrame ==
    [][lastOp'.op = "ensure_minimum_width" =>
         IF WSLe(arr.m_lbound, lastOp'.value) /\ WSLe(lastOp'.value, arr.m_ubound)
         THEN heap' = heap /\ arr' = arr /\ parent' = parent
         ELSE /\ arr'.m_size = arr.m_size
              /\ Elems(heap', arr') = Elems(heap, arr)
              /\ arr'.m_width >= arr.m_width]_vars

\* an 8-bit array of negative elements re-encoded at 32 bits
EnsureFrameWitness ==
    /\ lastOp.op = "ensure_minimum_width"
    /\ lastOp.value = FromNat(70000)
    /\ arr.m_width = 32
    /\ Elems(heap, arr) = <<FromInt(-1), FromInt(-1)>>

\* operations that copy a read-only buffer before they change it
CopyingOps == {"set", "insert", "add", "adjust", "child_copy_on_write"}

\* the operation named by op changes the array it is invoked on
Mutates(op) ==
    \/ op.op \in CopyingOps
    \/ op.op = "ensure_minimum_width" /\ ~Fits(op.value, arr.m_width)
    \/ op.op = "set_context_flag" /\ op.flag # arr.m_context_flag

\* the accessor moved to a fresh writable copy and its parent was told
Relocated ==
    /\ arr'.m_ref # arr.m_ref
    /\ ~heap[arr'.m_ref].used
    /\ heap'[arr'.m_ref].live /\ ~heap'[arr'.m_ref].ro
    /\ parent.has =>
           parent'.child_ref = arr'.m_ref /\ parent'.updates = parent.updates + 1

\* no byte and no header field of a read-only buffer changes while it lives
ReadOnlyUntouched ==
    \A r \in Refs : (heap[r].live /\ heap[r].ro /\ heap'[r].live) => heap'[r] = heap[r]

MutatorOps ==
    {"set", "insert", "add", "adjust", "child_copy_on_write",
     "ensure_minimum_width", "set_context_flag", "set_has_refs"}

DestroyDeepIdempotent ==
    /\ [](/\ \A r \in Refs : freed[r] <= 1
          /\ lastOp.op = "destroy_deep" => ~is_attached(arr))
    /\ [][(lastOp'.op = "destroy_deep" /\ ~is_attached(arr)) =>
            /\ lastOp'.order = <<>>
            /\ UNCHANGED <<heap, freed, arr, parent, failed>>]_vars

\* the tree destroyed, children first, and destroy_deep called again
DestroyDeepIdempotentWitness ==
    /\ lastOp.op = "destroy_deep" /\ lastOp.order = <<>>
    /\ ~is_attached(arr)
    /\ freed[8] = 1 /\ freed[16] = 1 /\ freed[24] = 1
    /\ ~heap[8].live /\ ~heap[16].live /\ ~heap[24].live

-----------------------------------------------------------------------------
(* Destruction and removal.                                                *)

\* order frees each buffer of R once, every child before its parent
ChildrenFirst(h, R, order) ==
    /\ Len(order) = Cardinality(R)
    /\ {order[i] : i \in DOMAIN order} = R
    /\ \A i, j \in DOMAIN order :
          (h[order[j]].hasrefs /\ order[i] \in ChildRefs(h, order[j])) => i < j

\* C11: destroy_deep on an attached accessor frees, once each and children
\* before their parent, the accessor's buffer and, if has_refs is set, every
\* buffer reachable from it through ref elements of has_refs buffers, and
\* nothing else; tagged elements and the elements of a buffer without
\* has_refs are not followed; the static destroy_deep(ref) frees the same
\* buffers in the same order
DestroyDeepFreesTree ==
    [][(lastOp'.op = "destroy_deep" /\ is_attached(arr)) =>
        LET R == Descendants(heap, {arr.m_ref})
            order == lastOp'.order
            static == destroy_deep_ref(Mach, arr.m_ref)
        IN  /\ ChildrenFirst(heap, R, order)
            /\ order[Len(order)] = arr.m_ref
            /\ ~arr.m_has_refs => order = <<arr.m_ref>>
            /\ \A r \in Refs :
                  /\ freed'[r] = freed[r] + (IF r \in R THEN 1 ELSE 0)
                  /\ heap'[r].live = (heap[r].live /\ r \notin R)
                  /\ heap'[r].data = heap[r].data
            /\ static.order = order
            /\ static.heap = heap'
            /\ static.freed = freed'
            /\ failed' = ""]_vars

\* the tree destroyed: the leaf at 32 freed before the node at 24 that holds
\* its ref, and once although the leaf at 16 holds the integer 32
DestroyDeepFreesTreeWitness ==
    /\ lastOp.op = "destroy_deep"
    /\ lastOp.order = <<16, 32, 24, 8>>
    /\ freed[32] = 1
    /\ \A r \in Refs : ~heap[r].live

\* the children named by the elements [begin, end) of the accessor's array
RemovedRefs(h, a, begin, end) ==
    IF a.m_has_refs
    THEN {ToNat(Get(h, a, i)) :
            i \in {j \in begin..(end - 1) : ~NullOrTagged(Get(h, a, j))}}
    ELSE {}

PlainRemovals == {"erase", "erase_range", "truncate", "clear"}
DestroyingRemovals == {"truncate_and_destroy_children", "clear_and_destroy_children"}

\* C12: erase(i), erase(begin, end), truncate(n) and clear() free nothing,
\* so the children named by the removed elements stay allocated;
\* truncate_and_destroy_children(n) and clear_and_destroy_children() free,
\* once each and children first, exactly the buffers reachable from the
\* removed elements, and the children of the surviving elements stay
\* allocated
RemovalFreesOnlyRemoved ==
    [][/\ lastOp'.op \in PlainRemovals =>
            /\ freed' = freed
            /\ \A r \in Refs : heap[r].live => heap'[r].live
            /\ \A r \in RemovedRefs(heap, arr, lastOp'.begin, lastOp'.end) :
                  heap[r].live /\ heap'[r].live /\ heap'[r].data = heap[r].data
            /\ failed' = ""
       /\ lastOp'.op \in DestroyingRemovals =>
            LET R == Descendants(heap, RemovedRefs(heap, arr, lastOp'.begin,
                                                   lastOp'.end))
                kept == Descendants(heap, RemovedRefs(heap, arr, 0, lastOp'.begin))
            IN  /\ ChildrenFirst(heap, R, lastOp'.order)
                /\ \A r \in Refs :
                      /\ freed'[r] = freed[r] + (IF r \in R THEN 1 ELSE 0)
                      /\ heap[r].used =>
                            heap'[r].live = (heap[r].live /\ r \notin R)
                /\ \A r \in kept : heap[r].live /\ heap'[r].live
                /\ arr'.m_size = lastOp'.begin
                /\ failed' = ""]_vars

\* the root's first element, the ref of the leaf at 16, erased and the rest
\* cleared with its children destroyed: the node at 24 and its leaf are
\* freed, the leaf at 16 is still allocated
RemovalFreesOnlyRemovedWitness ==
    /\ lastOp.op = "clear_and_destroy_children"
    /\ lastOp.order = <<32, 24>>
    /\ arr.m_size = 0
    /\ heap[16].live /\ freed[16] = 0
    /\ freed[24] = 1 /\ freed[32] = 1

\* a truncation that destroys the removed children and keeps a child
TruncateKeepsSurvivorsWitness ==
    /\ lastOp.op = "truncate_and_destroy_children"
    /\ lastOp.begin = 1 /\ lastOp.order = <<32, 24>>
    /\ arr.m_size = 1 /\ Get(heap, arr, 0) = FromNat(16)
    /\ heap[16].live

\* C13: erase(i) with i < size and erase(begin, end) with
\* begin <= end <= size remove the addressed elements and no other: the
\* size in the accessor and in the header drops by their number, the
\* elements below keep their place and those above move down in order,
\* also when the last element is the one erased
EraseRemovesRange ==
    [][lastOp'.op \in {"erase", "erase_range"} =>
        LET b == lastOp'.begin
            e == lastOp'.end
            old == Elems(heap, arr)
        IN  /\ failed' = ""
            /\ arr'.m_size = arr.m_size - (e - b)
            /\ heap'[arr'.m_ref].size = arr'.m_size
            /\ arr'.m_width = arr.m_width
            /\ heap'[arr'.m_ref].width = arr.m_width
            /\ Elems(heap', arr') = SubSeq(old, 1, b) \o SubSeq(old, e + 1, Len(old))]_vars

\* index 2 of the root's four elements erased: the last one moved down
EraseRemovesRangeWitness ==
    /\ lastOp.op = "erase" /\ lastOp.begin = 2
    /\ lastOp.before.buf.size = 4
    /\ arr.m_size = 3 /\ heap[arr.m_ref].size = 3
    /\ Elems(heap, arr) = <<FromNat(16), FromNat(3), FromNat(24)>>

\* the last element erased
EraseLastWitness ==
    /\ lastOp.op = "erase" /\ lastOp.begin = 3
    /\ Elems(heap, arr) = <<FromNat(16), FromNat(3), W0>>

\* a range in the middle erased
EraseMiddleWitness ==
    /\ lastOp.op = "erase_range" /\ lastOp.begin = 1 /\ lastOp.end = 3
    /\ Elems(heap, arr) = <<FromNat(16), FromNat(24)>>

\* C14: move(begin, end, dest_begin) with dest_begin outside [begin, end)
\* is a forward block copy: element dest_begin + k becomes the old element
\* begin + k for every k below end - begin, every other element and the
\* size stay as they were
MoveIsForwardCopy ==
    [][lastOp'.op = "move" =>
        LET b == lastOp'.begin
            n == lastOp'.end - lastOp'.begin
            d == lastOp'.dest
            old == Elems(heap, arr)
            new == Elems(heap', arr')
        IN  /\ failed' = ""
            /\ arr'.m_size = arr.m_size
            /\ heap'[arr'.m_ref].size = arr.m_size
            /\ Len(new) = Len(old)
            /\ \A k \in 0..(n - 1) : new[d + k + 1] = old[b + k + 1]
            /\ \A i \in 0..(Len(old) - 1) :
                  (i < d \/ i >= d + n) => new[i + 1] = old[i + 1]]_vars

\* move(1, 4, 0) on [16, 3, 0, 24]: the destination overlaps the source
\* from below and the last element is left in place
MoveIsForwardCopyWitness ==
    /\ lastOp.op = "move"
    /\ lastOp.begin = 1 /\ lastOp.end = 4 /\ lastOp.dest = 0
    /\ arr.m_size = 4
    /\ Elems(heap, arr) = <<FromNat(3), W0, FromNat(24), FromNat(24)>>

\* a move to a destination above the source
MoveUpWitness ==
    /\ lastOp.op = "move"
    /\ lastOp.begin = 0 /\ lastOp.end = 2 /\ lastOp.dest = 2
    /\ Elems(heap, arr)[3] = Elems(heap, arr)[1]
    /\ Elems(heap, arr)[4] = Elems(heap, arr)[2]
    /\ Elems(heap, arr)[1] # Elems(heap, arr)[2]

-----------------------------------------------------------------------------
(* RefOrTagged: the value of an element of a has_refs array.  A ref_type   *)
(* is a natural number, the int_fast64_t m_value a 64-bit word.            *)

\* from_ref and to_ref: the casts between ref_type and int_fast64_t
from_ref(ref) == FromNat(ref)
to_ref(v) == ToNat(v)

\* RefOrTagged::is_tagged
is_tagged(v) == ~is_ref(v)

\* RefOrTagged::get_as_ref
get_as_ref(v) == to_ref(v)

get_as_int_signed(v) ==
    WOr(WShr(v, 1), IF WIsNeg(v) THEN WPow2(63) ELSE W0)

\* RefOrTagged::get_as_int
get_as_int(v) == WShr(WAnd(v, WOnes), 1)

make_ref_odd(ref) == WOr(from_ref(ref), W1)

\* RefOrTagged::make_ref
make_ref(ref) == from_ref(ref)

\* RefOrTagged::make_tagged: the value, or the assertion that fails
make_tagged(i) ==
    IF WULt(i, WPow2(63))
    THEN [failed |-> "", m_value |-> WOr(WShl(i, 1), W1)]
    ELSE [failed |-> "REALM_ASSERT(i < (1ULL << 63))", m_value |-> W0]

\* the branch-free binary search of lower_bound<width>: the probe splits
\* [low, low + size) and the upper part is taken when the probed element
\* is below the value
RECURSIVE lower_bound(_, _, _, _, _)
lower_bound(w, data, low, size, value) ==
    IF size = 0 THEN low
    ELSE lower_bound(w, data,
                     IF WSLt(get_universal(w, data, low + (size \div 2)), value)
                     THEN low + (size - (size \div 2)) ELSE low,
                     size \div 2, value)

\* upper_bound<width>: the upper part is taken when the value is not below
\* the probed element
RECURSIVE upper_bound(_, _, _, _, _)
upper_bound(w, data, low, size, value) ==
    IF size = 0 THEN low
    ELSE upper_bound(w, data,
                     IF WSLe(get_universal(w, data, low + (size \div 2)), value)
                     THEN low + (size - (size \div 2)) ELSE low,
                     size \div 2, value)

lower_bound_int_le(h, a, value) ==
    upper_bound(a.m_width, h[a.m_ref].data, 0, a.m_size, value)

\* Array::lower_bound_int
lower_bound_int(h, a, value) ==
    lower_bound(a.m_width, h[a.m_ref].data, 0, a.m_size, value)

\* Array::upper_bound_int
upper_bound_int(h, a, value) ==
    upper_bound(a.m_width, h[a.m_ref].data, 0, a.m_size, value)

-----------------------------------------------------------------------------
(* The value operations: each is applied to an input and its result kept   *)
(* in lastOp.                                                              *)

\* the powers of two, their predecessors and the largest uint_fast64_t
TagInputs ==
    {WPow2(k) : k \in 0..63} \cup {WSub(WPow2(k), W1) : k \in 0..63} \cup {WOnes}

\* the refs an allocator hands out are multiples of 8
RefInputs == {8 * n : n \in 0..MaxBufs} \cup {8 * (2^k) : k \in 4..27}

\* the sequence of the documentation of lower_bound_int
BoundExample == <<3, 3, 3, 4, 4, 4, 5, 6, 7, 9, 9, 9>>

\* <<width, elements>>: arrays sorted ascendingly
SortedArrays ==
    {<<4, BoundExample>>, <<0, <<>>>>, <<0, <<0, 0, 0>>>>, <<1, <<0, 0, 1, 1, 1>>>>,
     <<2, <<1, 2, 2, 3>>>>, <<8, <<-128, -3, -3, 0, 5, 127>>>>,
     <<16, <<-300, -1, 4, 4, 4, 4, 4, 200, 300>>>>, <<32, <<7>>>>,
     <<64, <<-70000, -1, 0, 1, 70000>>>>}

BoundValues == {FromInt(v) : v \in -4..10} \cup {FromInt(-300), FromInt(300), FromInt(-70000), FromInt(70001), FromInt(127), FromInt(-128)}

InitValue ==
    /\ \E s \in SortedArrays :
          heap = [x \in Refs |->
                    IF x = 8
                    THEN MakeBuf(s[1], <<>> \o [i \in 1..Len(s[2]) |-> FromInt(s[2][i])],
                                 FALSE, FALSE, FALSE)
                    ELSE NoBuf]
    /\ arr = init_from_mem(heap, 8)
    /\ parent = NoParent
    /\ steps = 0
    /\ freed = [x \in Refs |-> 0]
    /\ query = NoQuery
    /\ reported = <<>>
    /\ findRet = TRUE
    /\ firstRet = not_found
    /\ lastOp = [op |-> "init"]
    /\ failed = ""
    /\ chain = NoChain
    /\ origin = NoOrigin

MakeTagged(i) ==
    /\ failed = ""
    /\ \E t \in {make_tagged(i)} :
          /\ lastOp' = [op |-> "make_tagged", arg |-> i, m_value |-> t.m_value]
          /\ failed' = t.failed
    /\ UNCHANGED <<heap, freed, arr, parent, chain, steps>>
    /\ UNCHANGED origin
    /\ ScanIdle

MakeRef(ref) ==
    /\ failed = ""
    /\ lastOp' = [op |-> "make_ref", ref |-> ref, m_value |-> make_ref(ref)]
    /\ UNCHANGED <<heap, freed, arr, parent, failed, chain, steps>>
    /\ UNCHANGED origin
    /\ ScanIdle

LowerBoundInt(value) ==
    /\ failed = ""
    /\ is_attached(arr)
    /\ lastOp' = [op |-> "lower_bound_int", value |-> value,
                  ret |-> lower_bound_int(heap, arr, value)]
    /\ UNCHANGED <<heap, freed, arr, parent, failed, chain, steps>>
    /\ UNCHANGED origin
    /\ ScanIdle

UpperBoundInt(value) ==
    /\ failed = ""
    /\ is_attached(arr)
    /\ lastOp' = [op |-> "upper_bound_int", value |-> value,
                  ret |-> upper_bound_int(heap, arr, value)]
    /\ UNCHANGED <<heap, freed, arr, parent, failed, chain, steps>>
    /\ UNCHANGED origin
    /\ ScanIdle

NextValue ==
    \/ \E i \in TagInputs : MakeTagged(i)
    \/ \E ref \in RefInputs : MakeRef(ref)
    \/ \E value \in BoundValues : LowerBoundInt(value)
    \/ \E value \in BoundValues : UpperBoundInt(value)

SpecValue == InitValue /\ [][NextValue]_vars

\* C15: for i < 2^63 make_tagged(i) holds 2 * i + 1, which is tagged, is not
\* a ref and has i as its integer; for i >= 2^63 make_tagged fails its
\* assertion and yields no value
TagRoundTrip ==
    lastOp.op = "make_tagged" =>
        IF lastOp.arg[4] < 2^15
        THEN /\ failed = ""
             /\ lastOp.m_value = WAddC(lastOp.arg, lastOp.arg, 1)
             /\ is_tagged(lastOp.m_value)
             /\ ~is_ref(lastOp.m_value)
             /\ get_as_int(lastOp.m_value) = lastOp.arg
        ELSE failed = "REALM_ASSERT(i < (1ULL << 63))"

\* the largest taggable integer, 2^63 - 1: every bit of the value is set
TagRoundTripWitness ==
    /\ lastOp.op = "make_tagged"
    /\ lastOp.arg = WSub(WPow2(63), W1)
    /\ lastOp.m_value = WOnes
    /\ get_as_int(lastOp.m_value) = lastOp.arg
    /\ failed = ""

\* 2^63 is refused
TagTooLargeWitness ==
    /\ lastOp.op = "make_tagged"
    /\ lastOp.arg = WPow2(63)
    /\ failed # ""

\* C16: for every ref r make_ref(r) is even: it is a ref, it is not tagged
\* and get_as_ref gives r back
RefRoundTrip ==
    lastOp.op = "make_ref" =>
        /\ lastOp.m_value[1] % 2 = 0
        /\ is_ref(lastOp.m_value)
        /\ ~is_tagged(lastOp.m_value)
        /\ get_as_ref(lastOp.m_value) = lastOp.ref

\* a ref beyond 2^16
RefRoundTripWitness ==
    /\ lastOp.op = "make_ref"
    /\ lastOp.ref = 8 * (2^20)
    /\ is_ref(lastOp.m_value)
    /\ get_as_ref(lastOp.m_value) = 8 * (2^20)

\* the number of leading elements of the attached array for which P holds,
\* P being downward closed on a sorted array: the first index where it fails
LeadingBelow(value, strict) ==
    Cardinality({i \in 0..(arr.m_size - 1) :
                    IF strict THEN WSLt(Get(heap, arr, i), value)
                    ELSE WSLe(Get(heap, arr, i), value)})

\* the first index whose element satisfies the bound, or the size
FirstIndex(value, strict) ==
    CHOOSE n \in 0..arr.m_size :
        /\ \A i \in 0..(n - 1) :
              IF strict THEN WSLt(Get(heap, arr, i), value)
              ELSE WSLe(Get(heap, arr, i), value)
        /\ n < arr.m_size =>
              IF strict THEN ~WSLt(Get(heap, arr, n), value)
              ELSE ~WSLe(Get(heap, arr, n), value)

\* the attached array is sorted ascendingly
IsSorted ==
    \A i \in 0..(arr.m_size - 2) : WSLe(Get(heap, arr, i), Get(heap, arr, i + 1))

\* the results the documentation gives for its sequence
ExampleBounds ==
    /\ lower_bound_int(heap, arr, FromNat(4)) = 3
    /\ upper_bound_int(heap, arr, FromNat(4)) = 6
    /\ lower_bound_int(heap, arr, FromNat(8)) = 9
    /\ upper_bound_int(heap, arr, FromNat(8)) = 9
    /\ lower_bound_int(heap, arr, FromNat(1)) = 0
    /\ upper_bound_int(heap, arr, FromNat(9)) = 12

\* C19: on an array sorted ascendingly lower_bound_int(v) is the first
\* index whose element is >= v and upper_bound_int(v) the first whose
\* element is > v, the size when there is none; lower_bound_int(v) is at
\* most upper_bound_int(v); on 3,3,3,4,4,4,5,6,7,9,9,9 the results are those
\* of the documentation
BoundsOnSorted ==
    /\ (lastOp.op = "lower_bound_int" /\ IsSorted) =>
          /\ lastOp.ret = FirstIndex(lastOp.value, TRUE)
          /\ lastOp.ret = LeadingBelow(lastOp.value, TRUE)
          /\ lastOp.ret <= upper_bound_int(heap, arr, lastOp.value)
    /\ (lastOp.op = "upper_bound_int" /\ IsSorted) =>
          /\ lastOp.ret = FirstIndex(lastOp.value, FALSE)
          /\ lastOp.ret = LeadingBelow(lastOp.value, FALSE)
          /\ lower_bound_int(heap, arr, lastOp.value) <= lastOp.ret
    /\ (lastOp.op \in {"lower_bound_int", "upper_bound_int"}
        /\ Elems(heap, arr) = <<>> \o [i \in 1..12 |-> FromNat(BoundExample[i])]) =>
          ExampleBounds

\* the upper bound of 4 in the documentation's sequence is 6, past the
\* lower bound 3
BoundsOnSortedWitness ==
    /\ lastOp.op = "upper_bound_int" /\ lastOp.value = FromNat(4)
    /\ lastOp.ret = 6
    /\ arr.m_size = 12 /\ arr.m_width = 4
    /\ lower_bound_int(heap, arr, lastOp.value) = 3
    /\ IsSorted

\* a value above every element: the size
BoundsAboveAllWitness ==
    /\ lastOp.op = "lower_bound_int" /\ lastOp.value = FromNat(10)
    /\ arr.m_size = 12 /\ lastOp.ret = 12

\* signed elements: the lower bound of -3 among -128, -3, -3, 0, 5, 127
BoundsSignedWitness ==
    /\ lastOp.op = "lower_bound_int" /\ lastOp.value = FromInt(-3)
    /\ arr.m_width = 8 /\ lastOp.ret = 1

-----------------------------------------------------------------------------
(* Serialization.  The stream out is the sequence of the arrays written,   *)
(* each with the ref of the buffer it was read from and the elements       *)
(* written; a write yields [out, ref]: the stream and the returned ref.    *)

\* the position of the n-th array of the stream, a ref no buffer has
StreamRef(n) == 8 * (MaxBufs + n)

\* Array::do_write_shallow: the array appended to the stream
do_write_shallow(ref, elems, out) ==
    [out |-> Append(out, [from |-> ref, elems |-> elems]),
     ref |-> StreamRef(Len(out) + 1)]

RECURSIVE write_static(_, _, _, _)

\* Array::do_write_deep: the children written first, their refs in the
\* stream put in place of their refs, then the array
RECURSIVE write_children(_, _, _, _, _, _)
write_children(h, ref, i, new_array, out, only_if_modified) ==
    IF i >= h[ref].size THEN do_write_shallow(ref, new_array, out)
    ELSE IF BufGet(h[ref], i) # W0 /\ is_ref(BufGet(h[ref], i))
    THEN LET sub == write_static(h, to_ref(BufGet(h[ref], i)), out, only_if_modified)
         IN  write_children(h, ref, i + 1, Append(new_array, from_ref(sub.ref)),
                            sub.out, only_if_modified)
    ELSE write_children(h, ref, i + 1, Append(new_array, BufGet(h[ref], i)),
                        out, only_if_modified)

do_write_deep(h, ref, out, only_if_modified) ==
    write_children(h, ref, 0, <<>>, out, only_if_modified)

\* the static Array::write(ref, alloc, out, only_if_modified)
write_static(h, ref, out, only_if_modified) ==
    IF only_if_modified /\ h[ref].ro THEN [out |-> out, ref |-> ref]
    ELSE IF ~h[ref].hasrefs THEN do_write_shallow(ref, BufElems(h[ref]), out)
    ELSE do_write_deep(h, ref, out, only_if_modified)

write_always(h, a, out, deep, only_if_modified) ==
    IF ~deep \/ ~a.m_has_refs
    THEN do_write_shallow(a.m_ref, Elems(h, a), out)
    ELSE do_write_deep(h, a.m_ref, out, only_if_modified)

\* Array::write(out, deep, only_if_modified)
write(h, a, out, deep, only_if_modified) ==
    IF only_if_modified /\ h[a.m_ref].ro THEN [out |-> out, ref |-> a.m_ref]
    ELSE IF ~deep \/ ~a.m_has_refs
    THEN do_write_shallow(a.m_ref, Elems(h, a), out)
    ELSE do_write_deep(h, a.m_ref, out, only_if_modified)

\* both overloads applied to the attached array and an empty stream
Write(deep, only_if_modified) ==
    /\ failed = ""
    /\ is_attached(arr)
    /\ \E m \in {write(heap, arr, <<>>, deep, only_if_modified)},
          s \in {write_static(heap, arr.m_ref, <<>>, only_if_modified)} :
          lastOp' = [op |-> "write", deep |-> deep, flag |-> only_if_modified,
                     ret |-> m.ref, out |-> m.out,
                     static_ret |-> s.ref, static_out |-> s.out]
    /\ UNCHANGED <<heap, freed, arr, parent, failed, chain, steps>>
    /\ UNCHANGED origin
    /\ ScanIdle

\* get_capacity_from_header: the bytes of the buffer
get_capacity_from_header(b) == header_size + Len(b.data)

get_byte_size_unaligned(h, a) ==
    [failed |-> "", num_bytes |-> header_size + ((a.m_size * a.m_width + 7) \div 8)]

\* Array::get_byte_size: the size, or the assertion that fails
get_byte_size(h, a) ==
    LET num_bytes == calc_byte_size_for(h[a.m_ref].wtype, a.m_size, a.m_width)
    IN  IF h[a.m_ref].ro \/ num_bytes <= get_capacity_from_header(h[a.m_ref])
        THEN [failed |-> "", num_bytes |-> num_bytes]
        ELSE [failed |-> "REALM_ASSERT_7(is_read_only, ==, true, ||, num_bytes, <=, capacity)",
              num_bytes |-> 0]

\* get_byte_size on the accessor, and on an accessor attached anew to the
\* same buffer
GetByteSize ==
    /\ failed = ""
    /\ is_attached(arr)
    /\ \E b \in {get_byte_size(heap, arr)} :
          /\ lastOp' = [op |-> "get_byte_size", ret |-> b.num_bytes,
                        again |-> get_byte_size(heap, init_from_mem(heap, arr.m_ref)).num_bytes,
                        max |-> get_max_byte_size(arr.m_size)]
          /\ failed' = b.failed
    /\ UNCHANGED <<heap, freed, arr, parent, chain, steps>>
    /\ UNCHANGED origin
    /\ ScanIdle

NextWrite ==
    \/ \E a \in CreateArgs : Create(a[1], a[2], a[3], a[4])
    \/ \E ndx \in {0, arr.m_size - 1}, value \in SetValues(arr) : Set(ndx, value)
    \/ \E value \in BOOLEAN : SetHasRefs(value)
    \/ MakeReadOnly
    \/ \E ndx \in {0, arr.m_size - 1} : ChildCopyOnWrite(ndx)
    \/ \E deep \in BOOLEAN, only_if_modified \in BOOLEAN : Write(deep, only_if_modified)
    \/ GetByteSize

SpecWrite == Init /\ [][NextWrite]_vars

\* the array written from the buffer at ref is the last of the stream and
\* the returned ref is its position
WrittenLast(ref, w) ==
    /\ w.out # <<>>
    /\ w.out[Len(w.out)].from = ref
    /\ w.ref = StreamRef(Len(w.out))

\* the written elements of a deep write of the buffer at ref: a child that
\* is read-only under only_if_modified keeps its ref, any other child has
\* the position of an array written earlier from its buffer, every other
\* element is as in the buffer
Patched(h, ref, w, only_if_modified) ==
    LET new == w.out[Len(w.out)].elems
    IN  /\ Len(new) = h[ref].size
        /\ \A i \in 0..(h[ref].size - 1) :
              LET v == BufGet(h[ref], i)
              IN  IF NullOrTagged(v) THEN new[i + 1] = v
                  ELSE IF only_if_modified /\ h[ToNat(v)].ro THEN new[i + 1] = v
                  ELSE \E k \in 1..(Len(w.out) - 1) :
                          /\ new[i + 1] = FromNat(StreamRef(k))
                          /\ w.out[k].from = ToNat(v)

\* what Array::write must yield on the buffer at ref
WriteContract(h, ref, w, deep, only_if_modified) ==
    IF only_if_modified /\ h[ref].ro
    THEN w.out = <<>> /\ w.ref = ref
    ELSE /\ WrittenLast(ref, w)
         /\ IF ~deep \/ ~h[ref].hasrefs
            THEN w.out = <<[from |-> ref, elems |-> BufElems(h[ref])]>>
            ELSE Patched(h, ref, w, only_if_modified)

\* C17: write with only_if_modified on an array whose buffer is read-only
\* writes nothing and returns the array's ref, whatever deep and has_refs
\* are, in the member and in the static overload; in every other case the
\* array is written last and its position returned: alone and as it is when
\* deep is false or has_refs is clear, after its written children and with
\* their positions in place of their refs otherwise
WriteOnlyIfModified ==
    lastOp.op = "write" =>
        /\ WriteContract(heap, arr.m_ref,
                         [out |-> lastOp.out, ref |-> lastOp.ret],
                         lastOp.deep, lastOp.flag)
        /\ WriteContract(heap, arr.m_ref,
                         [out |-> lastOp.static_out, ref |-> lastOp.static_ret],
                         TRUE, lastOp.flag)

\* a committed array, deep and with refs, written with only_if_modified:
\* nothing is written by either overload
WriteOnlyIfModifiedWitness ==
    /\ lastOp.op = "write" /\ lastOp.deep /\ lastOp.flag
    /\ arr.m_has_refs /\ heap[arr.m_ref].ro
    /\ lastOp.out = <<>> /\ lastOp.ret = arr.m_ref
    /\ lastOp.static_out = <<>> /\ lastOp.static_ret = arr.m_ref

\* a deep write of a tree whose root and first child were modified after a
\* commit: the child and the root are written, the unmodified node keeps
\* its ref
WriteModifiedWitness ==
    /\ lastOp.op = "write" /\ lastOp.deep /\ lastOp.flag
    /\ ~heap[arr.m_ref].ro /\ heap[24].ro
    /\ Len(lastOp.out) = 2
    /\ lastOp.out[2].elems =
          <<FromNat(StreamRef(1)), FromNat(3), W0, FromNat(24)>>

\* a deep write of the whole tree
WriteDeepWitness ==
    /\ lastOp.op = "write" /\ lastOp.deep /\ ~lastOp.flag
    /\ Len(lastOp.out) = 4
    /\ lastOp.out[1].from = 16 /\ lastOp.out[2].from = 32
    /\ lastOp.out[3].from = 24 /\ lastOp.out[4].from = 8

\* the bytes size elements take under the width type
PayloadBytes(wtype, size, width) ==
    IF wtype = "wtype_Bits"
    THEN CHOOSE n \in 0..(size * width) : 8 * n >= size * width /\ 8 * (n - 1) < size * width
    ELSE IF wtype = "wtype_Multiply" THEN size * width
    ELSE size

\* n is the header and the least multiple of 8 that holds the payload
AlignedSize(n, payload) ==
    /\ n % 8 = 0
    /\ n >= header_size + payload
    /\ n < header_size + payload + 8

\* the element counts the byte size is computed for
ByteSizeCounts == 0..17

\* C20: the byte size of an array is the value calc_byte_size gives for the
\* width type, the element count and the width of its header, whatever
\* else the array holds; an accessor attached anew to the same buffer
\* computes the same value; the value is a multiple of 8 and includes the
\* header
ByteSizeDeterministic ==
    /\ lastOp.op = "get_byte_size" =>
          /\ failed = ""
          /\ lastOp.ret = lastOp.again
          /\ lastOp.ret = calc_byte_size_for(heap[arr.m_ref].wtype,
                                             heap[arr.m_ref].size,
                                             heap[arr.m_ref].width)
          /\ AlignedSize(lastOp.ret,
                         PayloadBytes(heap[arr.m_ref].wtype, heap[arr.m_ref].size,
                                      heap[arr.m_ref].width))
          /\ lastOp.ret = calc_byte_size(arr.m_size, arr.m_width)
          /\ lastOp.ret = header_size + Len(heap[arr.m_ref].data)
    /\ \A wtype \in WidthTypes, size \in ByteSizeCounts, width \in Widths :
          AlignedSize(calc_byte_size_for(wtype, size, width),
                      PayloadBytes(wtype, size, width))

\* two 16-bit elements after a widening set: 4 bytes of elements, rounded
\* up to 8, and the 8 bytes of the header
ByteSizeDeterministicWitness ==
    /\ lastOp.op = "get_byte_size"
    /\ arr.m_width = 16 /\ arr.m_size = 2
    /\ lastOp.ret = 16 /\ lastOp.again = 16

\* an empty array is its header
ByteSizeEmptyWitness ==
    /\ lastOp.op = "get_byte_size"
    /\ arr.m_size = 0 /\ lastOp.ret = header_size

\* the root of the tree: four 8-bit elements
ByteSizeRootWitness ==
    /\ lastOp.op = "get_byte_size"
    /\ arr.m_width = 8 /\ arr.m_size = 4 /\ lastOp.ret = 16

-----------------------------------------------------------------------------
(* Cloning.                                                                *)

\* the operations on an array and, once, the clone of it taken in its place
NextClone ==
    \/ Next
    \/ CloneDeep

SpecClone == Init /\ [][NextClone]_vars

\* the buffers of the tree that was cloned
OriginTree == Descendants(origin.heap, {origin.root})

\* C18: the clone made by clone_deep shares no buffer with the original
\* array or its descendants, and whatever is done to the clone and its
\* descendants afterwards, every buffer of the original tree stays
\* allocated with the elements it had
CloneIndependent ==
    origin.has =>
        /\ \A r \in OriginTree :
              /\ heap[r].live
              /\ heap[r].size = origin.heap[r].size
              /\ heap[r].width = origin.heap[r].width
              /\ heap[r].hasrefs = origin.heap[r].hasrefs
              /\ BufElems(heap[r]) = BufElems(origin.heap[r])
        /\ is_attached(arr) =>
              Descendants(heap, {arr.m_ref}) \cap OriginTree = {}

\* the clone of the tree destroyed with its descendants: four buffers
\* freed, the four of the original still allocated
CloneIndependentWitness ==
    /\ origin.has /\ origin.root = 8
    /\ lastOp.op = "destroy_deep" /\ Len(lastOp.order) = 4
    /\ OriginTree = {8, 16, 24, 32}
    /\ \A r \in OriginTree : heap[r].live /\ freed[r] = 0

\* an element of the clone set
CloneSetWitness ==
    /\ origin.has /\ origin.root = 8
    /\ lastOp.op = "set" /\ lastOp.ndx = 0
    /\ Get(heap, arr, 0) # FromNat(16)
    /\ BufGet(heap[8], 0) = FromNat(16)

\* the clone of the tree just made: same shape, other buffers
CloneMadeWitness ==
    /\ lastOp.op = "clone_deep"
    /\ origin.root = 8
    /\ Cardinality(Descendants(heap, {arr.m_ref})) = 4
    /\ arr.m_size = 4 /\ Get(heap, arr, 1) = FromNat(3) /\ Get(heap, arr, 2) = W0

-----------------------------------------------------------------------------
(* Size bound, adjust and flags.                                           *)

\* C21: get_max_byte_size(n) is the header and 8 bytes an element, and no
\* array of n elements stored by bit width takes more, at any width and
\* with the rounding to 8 bytes
MaxByteSizeBounds ==
    /\ (lastOp.op = "get_byte_size" /\ heap[arr.m_ref].wtype = "wtype_Bits") =>
          /\ lastOp.max = header_size + 8 * arr.m_size
          /\ lastOp.ret <= lastOp.max
    /\ \A size \in ByteSizeCounts, width \in Widths :
          calc_byte_size_for("wtype_Bits", size, width) <= get_max_byte_size(size)

\* two 64-bit elements: the bound is met
MaxByteSizeBoundsWitness ==
    /\ lastOp.op = "get_byte_size"
    /\ arr.m_width = 64 /\ arr.m_size = 2
    /\ lastOp.ret = 24 /\ lastOp.max = 24

\* two 1-bit elements: a quarter of a byte rounded up to 8
MaxByteSizeRoundedWitness ==
    /\ lastOp.op = "get_byte_size"
    /\ arr.m_width = 1 /\ arr.m_size = 2
    /\ lastOp.ret = 16 /\ lastOp.max = 24


NextAdjust ==
    \/ \E a \in CreateArgs : Create(a[1], a[2], a[3], a[4])
    \/ \E ndx \in {0, arr.m_size - 1}, value \in SetValues(arr) : Set(ndx, value)
    \/ MakeReadOnly
    \/ \E ndx \in 0..(MaxSize - 1), diff \in AdjustRangeDiffs : Adjust(ndx, diff)
    \/ \E r \in AdjustRanges, diff \in AdjustRangeDiffs : AdjustRange(r[1], r[2], diff)

SpecAdjust == Init /\ [][NextAdjust]_vars

AdjustOps == {"adjust", "adjust_range", "adjust_trap"}

\* element i of the buffer the operation was invoked on
OldElem(i) == BufGet(lastOp.before.buf, i)

\* the elements [begin, end) are the old ones plus diff, the others and the
\* size are the old ones, the width grows only when a sum is out of the old
\* range, and a diff of 0 leaves the ref and the buffer as they were
Adjusted ==
    /\ arr.m_size = lastOp.before.buf.size
    /\ \A i \in 0..(arr.m_size - 1) :
          Get(heap, arr, i) =
              IF lastOp.begin <= i /\ i < lastOp.end
              THEN WAdd(OldElem(i), lastOp.diff)
              ELSE OldElem(i)
    /\ arr.m_width >= lastOp.before.buf.width
    /\ arr.m_width > lastOp.before.buf.width <=>
          \E i \in lastOp.begin..(lastOp.end - 1) :
             \/ WSLt(WAdd(OldElem(i), lastOp.diff),
                     lbound_for_width(lastOp.before.buf.width))
             \/ WSLt(ubound_for_width(lastOp.before.buf.width),
                     WAdd(OldElem(i), lastOp.diff))
    /\ lastOp.diff = W0 =>
          /\ arr.m_ref = lastOp.before.ref
          /\ heap[arr.m_ref] = lastOp.before.buf

\* C22: adjust(i, d) leaves element i equal to its old value plus d and
\* every other element and the size unchanged, upgrading the width when the
\* sum no longer fits; adjust(begin, end, d) does this for exactly the
\* indices in [begin, end); with d = 0 both change nothing, the ref included
AdjustAddsAlways ==
    lastOp.op \in AdjustOps =>
        /\ failed = ""
        /\ \A i \in lastOp.begin..(lastOp.end - 1) :
              ~adjust_overflows(OldElem(i), lastOp.diff)
        /\ Adjusted

\* C22, where no sum leaves the range of int_fast64_t: the same
AdjustAdds ==
    (/\ lastOp.op \in AdjustOps
     /\ \A i \in lastOp.begin..(lastOp.end - 1) :
           ~adjust_overflows(OldElem(i), lastOp.diff)) =>
        failed = "" /\ Adjusted

\* an adjust by 1 of the largest 64-bit element: the sum is not stored
AdjustOverflowWitness ==
    /\ lastOp.op \in AdjustOps
    /\ lastOp.diff = W1
    /\ OldElem(lastOp.ndx) = ubound_for_width(64)
    /\ \/ failed # ""
       \/ Get(heap, arr, lastOp.ndx) = lbound_for_width(64)

\* a range adjust that widened an 8-bit array, and an adjust by 0 of a
\* read-only buffer, which stays where it is
AdjustRangeWitness ==
    /\ lastOp.op = "adjust_range"
    /\ lastOp.begin = 0 /\ lastOp.end = 2
    /\ lastOp.diff = FromNat(200)
    /\ lastOp.before.buf.width = 8 /\ arr.m_width = 16

AdjustZeroWitness ==
    /\ lastOp.op \in {"adjust", "adjust_range"}
    /\ lastOp.diff = W0
    /\ lastOp.before.ro
    /\ arr.m_ref = lastOp.before.ref

---------------------------------------------------------------------------
(* Dispatch and early outs of the scans.                                   *)

FindOps == {"find", "find_first"}

\* every lane of the 64-bit chunk whose first element is at index first has
\* its top bit clear
LanesTopClear(first) ==
    \A i \in first..(first + Lanes(arr.m_width) - 1) :
       /\ ~WIsNeg(Get(heap, arr, i))
       /\ WSLt(Get(heap, arr, i), WPow2(arr.m_width - 1))

\* the comparison value is non-negative and within the lower half of the
\* values of the width (one less for Greater, which nothing exceeds there)
HalfRange(gt, value) ==
    /\ ~WIsNeg(value)
    /\ WSLe(value, WSub(WPow2(arr.m_width - 1), IF gt THEN FromNat(2) ELSE W1))

\* C23: in compare_relation for Greater and for Less at widths 2, 4, 8 and
\* 16, find_gtlt_fast is used on every chunk whose lanes all have their top
\* bit clear whenever the value is non-negative and within half the range,
\* and find_gtlt otherwise; widths 32 and 64 use no chunk routine
RelationDispatch ==
    (lastOp.op \in FindOps /\ query.cond \in {"Greater", "Less"}) =>
        /\ arr.m_width \in {32, 64} => lastOp.calls = <<>>
        /\ arr.m_width \in {2, 4, 8, 16} =>
              \A k \in 1..Len(lastOp.calls) :
                 lastOp.calls[k].routine = "find_gtlt_fast" <=>
                    /\ HalfRange(query.cond = "Greater", query.value)
                    /\ LanesTopClear(lastOp.calls[k].baseindex - query.base)

\* C23, as the code dispatches: the above for Greater; for Less the guard
\* `value != int64_t(magic & mask)` is false and every chunk goes to find_gtlt
RelationDispatchGreater ==
    (lastOp.op \in FindOps /\ query.cond \in {"Greater", "Less"}) =>
        /\ arr.m_width \in {32, 64} => lastOp.calls = <<>>
        /\ arr.m_width \in {2, 4, 8, 16} =>
              \A k \in 1..Len(lastOp.calls) :
                 lastOp.calls[k].routine = "find_gtlt_fast" <=>
                    /\ query.cond = "Greater"
                    /\ HalfRange(TRUE, query.value)
                    /\ LanesTopClear(lastOp.calls[k].baseindex - query.base)

\* a Less scan of an 8-bit array for 5, which is within half the range: a
\* chunk of lanes with clear top bits went to find_gtlt
RelationLessWitness ==
    /\ lastOp.op = "find"
    /\ query.cond = "Less" /\ arr.m_width = 8 /\ query.value = FromNat(5)
    /\ \E k \in 1..Len(lastOp.calls) :
          /\ lastOp.calls[k].routine = "find_gtlt"
          /\ LanesTopClear(lastOp.calls[k].baseindex)

\* a Greater scan whose chunks went one to each routine
RelationGreaterWitness ==
    /\ lastOp.op = "find"
    /\ query.cond = "Greater" /\ arr.m_width \in {2, 4, 8, 16}
    /\ \E k \in 1..Len(lastOp.calls) : lastOp.calls[k].routine = "find_gtlt_fast"
    /\ \E k \in 1..Len(lastOp.calls) : lastOp.calls[k].routine = "find_gtlt"

\* the indices of [start, end) whose element satisfies the predicate
MatchingIndices ==
    {i \in query.start..(RangeEnd(arr, query) - 1) :
        CondHolds(query.cond, Get(heap, arr, i), query.value)}

\* C24: find_action_pattern declines every pattern it is offered, so a scan
\* whose chunk loops offered patterns still reports each matching element
\* once, ascending, through find_action: none is reported twice, and none
\* below the last reported one (none at all when the scan ran to its end)
\* is left out
PatternHasNoEffect ==
    (lastOp.op \in FindOps /\ lastOp.offers > 0) =>
        /\ failed = ""
        /\ \A k \in 1..(Len(reported) - 1) : reported[k][1] < reported[k + 1][1]
        /\ \A k \in 1..Len(reported) : reported[k][1] \in MatchingIndices
        /\ \A i \in MatchingIndices :
              (findRet \/ i < reported[Len(reported)][1]) =>
                  \E k \in 1..Len(reported) : reported[k][1] = i
        /\ Len(reported) >= 1

\* an equality scan and a Greater scan that offered a pattern per match
PatternHasNoEffectWitness ==
    /\ lastOp.op = "find" /\ query.cond = "Equal"
    /\ lastOp.offers >= 3 /\ Len(reported) >= 3 /\ findRet

PatternRelationWitness ==
    /\ lastOp.op = "find" /\ query.cond = "Greater"
    /\ lastOp.offers >= 2 /\ Len(reported) >= 2 /\ findRet

\* sinks without a transform callback: a find-all state with two matches to
\* go before its limit, and one whose limit no range reaches
FindAllSinks ==
    {[kind |-> "findall", stopAt |-> 0, limit |-> 3, match_count |-> 1],
     [kind |-> "findall", stopAt |-> 0, limit |-> 200, match_count |-> 0]}

NextEarly ==
    \/ \E c \in Conds, value \in QueryValues(arr.m_width),
          range \in ScanRanges(arr.m_width), sink \in Sinks \cup FindAllSinks :
         \E ub \in UbChoices(c) :
            Find(c, value, range[1], range[2], sink, ub)
    \/ \E c \in Conds, value \in QueryValues(arr.m_width),
          range \in ScanRanges(arr.m_width) :
            FindFirst(c, value, range[1], range[2])

SpecEarly == InitScan /\ [][NextEarly]_vars

\* no value of the range of the array's width satisfies the predicate
CannotMatch ==
    IF query.cond = "Equal"
    THEN WSLt(query.value, arr.m_lbound) \/ WSLt(arr.m_ubound, query.value)
    ELSE IF query.cond = "NotEqual"
    THEN arr.m_lbound = query.value /\ arr.m_ubound = query.value
    ELSE IF query.cond = "Greater" THEN WSLe(arr.m_ubound, query.value)
    ELSE WSLe(query.value, arr.m_lbound)

\* every value of the range of the array's width satisfies the predicate
MustMatch ==
    IF query.cond = "Equal"
    THEN arr.m_lbound = query.value /\ arr.m_ubound = query.value
    ELSE IF query.cond = "NotEqual"
    THEN WSLt(query.value, arr.m_lbound) \/ WSLt(arr.m_ubound, query.value)
    ELSE IF query.cond = "Greater" THEN WSLt(query.value, arr.m_lbound)
    ELSE WSLt(arr.m_ubound, query.value)

RangeLen == RangeEnd(arr, query) - query.start

\* the number of indices a must-match scan reports: up to the limit without
\* a transform callback; with one, all of them unless it signals stop
WillReport ==
    IF query.sink.kind = "callback"
    THEN IF query.sink.stopAt = 0 \/ query.sink.stopAt > RangeLen THEN RangeLen
         ELSE query.sink.stopAt
    ELSE Min2(RangeLen, query.sink.limit - query.sink.match_count)

EarlyOutsCallbackWitness ==
    /\ lastOp.op = "find" /\ MustMatch
    /\ query.sink.kind = "callback" /\ query.sink.limit = 0
    /\ Len(reported) = RangeLen /\ RangeLen > 2

EarlyOutsRangeWitness ==
    /\ lastOp.op = "find" /\ MustMatch
    /\ query.sink.kind = "findall" /\ query.sink.limit = 200
    /\ Len(reported) = RangeLen /\ RangeLen > 2

EarlyOutsNoneWitness ==
    /\ lastOp.op = "find" /\ CannotMatch /\ RangeLen > 0
    /\ query.cond = "Greater" /\ arr.m_width = 8
    /\ reported = <<>> /\ findRet

---------------------------------------------------------------------------
(* compare_leafs: this array against a foreign one, element by element     *)

\* if (c(v, foreign->get(i))) find_action(i + baseindex, v, state, callback)
leafs_step(lx, c, st, i) ==
    IF CondHolds(c, get_universal(lx.w, lx.data, i), get_universal(lx.fw, lx.fdata, i))
    THEN find_action(lx.sink, st, i + lx.base, get_universal(lx.w, lx.data, i))
    ELSE st

\* while (start < end) { ...; start++; }, left when find_action returns false
RECURSIVE leafs_loop(_, _, _, _, _)
leafs_loop(lx, c, st, i, end) ==
    IF ~(i < end) \/ ~st.cont THEN st
    ELSE leafs_loop(lx, c, leafs_step(lx, c, st, i), i + 1, end)

\* the loop of two arrays of width 0: find_action(start + baseindex, 0, ...)
RECURSIVE leafs_zero_loop(_, _, _, _)
leafs_zero_loop(lx, st, i, end) ==
    IF ~(i < end) \/ ~st.cont THEN st
    ELSE leafs_zero_loop(lx, find_action(lx.sink, st, i + lx.base, W0), i + 1, end)

\* Array::compare_leafs_4<cond, width, Callback, foreign_width> without the
\* vector path
compare_leafs_4(lx, c, start, end, st) ==
    IF lx.w = 0 /\ lx.fw = 0
    THEN IF CondHolds(c, W0, W0) THEN leafs_zero_loop(lx, st, start, end) ELSE st
    ELSE leafs_loop(lx, c, st, start, end)

\* the unrolled elements start, start + 1, start + 2 and what follows them
compare_leafs_unrolled(lx, c, start, end, st) ==
    IF start + 3 < end
    THEN compare_leafs_4(lx, c, start + 3, end,
                         leafs_loop(lx, c, st, start, start + 3))
    ELSE IF start = end THEN st
    ELSE compare_leafs_4(lx, c, start, end, st)

compare_leafs_no_advance(lx, c, start, end, st) ==
    IF start = end THEN st
    ELSE IF start + 4 < end
    THEN compare_leafs_4(lx, c, start + 1, end,
                         leafs_loop(lx, c, st, start, start + 4))
    ELSE compare_leafs_4(lx, c, start, end, st)

\* Array::compare_leafs<cond, Callback>
compare_leafs(lx, c, start, end, st) ==
    IF start = end THEN st
    ELSE compare_leafs_unrolled(lx, c, start + 1, end,
                                leafs_step(lx, c, st, start))

LeafSize == 6
\* where the foreign array is
ForeignRefs == {16}

\* six elements of an array of width w: the ends of its range, 0 and 1
LeafElems(w, k) ==
    <<>> \o [i \in 1..LeafSize |->
               <<lbound_for_width(w), ubound_for_width(w), W0,
                 IF w = 0 THEN W0 ELSE W1>>[((i * k) % 4) + 1]]

InitLeafs ==
    \E w \in Widths, fw \in Widths :
        /\ heap = [x \in Refs |->
                    IF x = 8 THEN MakeBuf(w, LeafElems(w, 1), FALSE, FALSE, FALSE)
                    ELSE IF x \in ForeignRefs
                    THEN MakeBuf(fw, LeafElems(fw, 3), FALSE, FALSE, FALSE)
                    ELSE NoBuf]
        /\ arr = init_from_mem(heap, 8)
        /\ freed = [x \in Refs |-> 0]
        /\ parent = NoParent
        /\ query = NoQuery
        /\ reported = <<>>
        /\ findRet = TRUE
        /\ firstRet = not_found
        /\ lastOp = [op |-> "attach"]
        /\ failed = ""
        /\ chain = NoChain
        /\ steps = 0
        /\ origin = NoOrigin

\* the context of compare_leafs: this array and the foreign one
Lx(h, a, f, q) ==
    [w |-> a.m_width, data |-> h[a.m_ref].data,
     fw |-> h[f].width, fdata |-> h[f].data, base |-> q.base, sink |-> q.sink]

\* bool Array::compare_leafs<cond>(foreign, start, end, baseindex, state, callback)
CompareLeafs(foreign, c, start, end, sink) ==
    /\ lastOp.op = "attach"
    /\ is_attached(arr) /\ heap[foreign].live
    /\ start <= end /\ end <= arr.m_size /\ end <= heap[foreign].size
    /\ query' = [cond |-> c, value |-> W0, start |-> start, end |-> end,
                 base |-> 0, sink |-> sink, ub |-> "same"]
    /\ \E st \in {compare_leafs(Lx(heap, arr, foreign, query'), c, start, end,
                                ScanStart)} :
           /\ reported' = st.out
           /\ findRet' = st.cont
           /\ failed' = st.fail
    /\ lastOp' = [op |-> "compare_leafs", foreign |-> foreign]
    /\ steps' = steps + 1
    /\ UNCHANGED <<heap, freed, arr, parent, chain, firstRet, origin>>

\* <<start, end>>: the empty range and the ranges of 1 to 5 elements from
\* index 0 and from index 1
LeafRanges ==
    {<<0, 0>>} \cup {<<s, s + n>> : s \in {0, 1}, n \in 1..(LeafSize - 1)}

NextLeafs ==
    \E foreign \in ForeignRefs, c \in Conds, range \in LeafRanges, sink \in Sinks :
        CompareLeafs(foreign, c, range[1], range[2], sink)

SpecLeafs == InitLeafs /\ [][NextLeafs]_vars

\* the indices of [start, end) whose element of this array satisfies the
\* predicate against the element of the foreign array at the same index
LeafMatches ==
    SelectSeq(<<>> \o [i \in 1..(query.end - query.start) |-> query.start + i - 1],
              LAMBDA i : CondHolds(query.cond, Get(heap, arr, i),
                                   BufGet(heap[lastOp.foreign], i)))

\* the number of matches reported before the callback signals stop
LeafReports ==
    IF query.sink.stopAt = 0 \/ query.sink.stopAt > Len(LeafMatches)
    THEN Len(LeafMatches)
    ELSE query.sink.stopAt

\* C26: compare_leafs<cond>(foreign, start, end) reports the indices i of
\* [start, end) with cond(this[i], foreign[i]), each once, ascending, with
\* this array's element as the value, up to the match at which the callback
\* signals stop, where it returns false; otherwise it returns true
LeafsEqualNaive ==
    lastOp.op = "compare_leafs" =>
        /\ failed = ""
        /\ Len(reported) = LeafReports
        /\ \A k \in 1..Len(reported) :
              /\ reported[k][1] = LeafMatches[k]
              /\ reported[k][2] = Get(heap, arr, reported[k][1])
        /\ findRet = (query.sink.stopAt = 0 \/ query.sink.stopAt > Len(LeafMatches))

\* a range of five elements from index 1 of an 8-bit array against a 2-bit
\* one, with matches in the prologue and after it; two arrays of width 0;
\* a scan the callback stopped
LeafsEqualNaiveWitness ==
    /\ lastOp.op = "compare_leafs"
    /\ arr.m_width = 8 /\ heap[lastOp.foreign].width = 2
    /\ query.start = 1 /\ query.end = 6 /\ query.sink.stopAt = 0
    /\ Len(reported) >= 2
    /\ reported[1][1] <= 4 /\ reported[Len(reported)][1] = 5

LeafsZeroWitness ==
    /\ lastOp.op = "compare_leafs"
    /\ arr.m_width = 0 /\ heap[lastOp.foreign].width = 0
    /\ query.cond = "Equal" /\ query.sink.stopAt = 0
    /\ Len(reported) = 5

LeafsStopWitness ==
    /\ lastOp.op = "compare_leafs"
    /\ query.sink.stopAt = 2 /\ Len(reported) = 2 /\ ~findRet
    /\ Len(LeafMatches) > 2

---------------------------------------------------------------------------
(* Termination of the scans, width 0, and the node flags.                  *)

\* the 64-bit chunks a range of the array touches
RangeChunks == ((RangeLen * arr.m_width) \div 64) + 2

\* C27: a find over start <= end <= size comes to its end: no loop of it is
\* still running after one iteration per lane and an exit (the model's
\* loops fail past that), find_zero stays on the word, find_action is
\* invoked at most end - start times, and every pattern offered by a
\* match-extraction loop is followed by a report or by the loop's exit,
\* also when the first match of a chunk is in its last lane, where the word
\* is shifted by 64 and is left as it was or cleared
FindTerminates ==
    lastOp.op \in FindOps =>
        /\ failed = ""
        /\ Len(reported) <= RangeLen
        /\ lastOp.offers <= Len(reported) + RangeChunks
        /\ lastOp.compared <= RangeLen + 2 * Lanes(arr.m_width)

\* an equality scan whose only match of the first chunk is in its last
\* lane, with the shift by 64 leaving the word as it was, and with it
\* cleared; a Greater scan by find_gtlt_fast with a match in a last lane
FindTerminatesWitness ==
    /\ lastOp.op = "find" /\ query.cond = "Equal" /\ query.ub = "same"
    /\ query.start = 0 /\ arr.m_width = 8 /\ findRet
    /\ Len(reported) >= 1 /\ reported[1][1] = Lanes(8) - 1
    /\ lastOp.offers >= 2

FindTerminatesZeroWitness ==
    /\ lastOp.op = "find" /\ query.cond = "Equal" /\ query.ub = "zero"
    /\ query.start = 0 /\ arr.m_width = 8 /\ findRet
    /\ Len(reported) >= 1 /\ reported[1][1] = Lanes(8) - 1

FindTerminatesFastWitness ==
    /\ lastOp.op = "find" /\ query.cond = "Greater" /\ findRet
    /\ query.start = 0 /\ arr.m_width = 8
    /\ Len(lastOp.calls) >= 1 /\ lastOp.calls[1].routine = "find_gtlt_fast"
    /\ Len(reported) >= 1 /\ reported[1][1] = Lanes(8) - 1

\* the scan context of the query with a callback that never signals stop
ChunkCx ==
    [Cx(heap, arr, query) EXCEPT
        !.sink = [kind |-> "callback", stopAt |-> 0, limit |-> 0, match_count |-> 0]]

\* the 64-bit chunk whose first element is reported as baseindex
ChunkOf(baseindex) ==
    ChunkAt(heap[arr.m_ref].data, ((baseindex - query.base) * arr.m_width) \div 8)

\* what find_gtlt_fast and find_gtlt report for the chunk at baseindex
FastReports(baseindex) ==
    find_gtlt_fast(ChunkCx, query.cond = "Greater", ChunkOf(baseindex),
                   find_gtlt_magic(query.cond = "Greater", arr.m_width, query.value),
                   ScanStart, baseindex).out

PlainReports(baseindex) ==
    find_gtlt(ChunkCx, query.cond = "Greater", query.value, ChunkOf(baseindex),
              ScanStart, baseindex).out

\* C28: for every chunk compare_relation hands to find_gtlt_fast, the
\* (index, value) pairs find_gtlt_fast reports, in their order, are those
\* find_gtlt reports for the same chunk and value
FastEqualsPlain ==
    (lastOp.op \in FindOps /\ query.cond \in {"Greater", "Less"}) =>
        \A k \in 1..Len(lastOp.calls) :
           lastOp.calls[k].routine = "find_gtlt_fast" =>
              FastReports(lastOp.calls[k].baseindex)
                  = PlainReports(lastOp.calls[k].baseindex)

\* a chunk handed to find_gtlt_fast with matches in several lanes, the last
\* lane among them
FastEqualsPlainWitness ==
    /\ lastOp.op = "find" /\ query.cond = "Greater"
    /\ \E k \in 1..Len(lastOp.calls) :
          /\ lastOp.calls[k].routine = "find_gtlt_fast"
          /\ Len(FastReports(lastOp.calls[k].baseindex)) >= 3
          /\ PlainReports(lastOp.calls[k].baseindex)
                 = FastReports(lastOp.calls[k].baseindex)

FastLastLaneWitness ==
    /\ lastOp.op = "find" /\ query.cond = "Greater"
    /\ \E k \in 1..Len(lastOp.calls) :
          /\ lastOp.calls[k].routine = "find_gtlt_fast"
          /\ FastReports(lastOp.calls[k].baseindex) # <<>>
          /\ FastReports(lastOp.calls[k].baseindex)[1][1]
                 = lastOp.calls[k].baseindex + Lanes(arr.m_width) - 1

\* comparison values around 0 and at the ends of the widths
ZeroWidthValues ==
    {FromInt(v) : v \in -3..3}
    \cup {lbound_for_width(w) : w \in Widths} \cup {ubound_for_width(w) : w \in Widths}

\* C29: at width 0 every predicate and every value is resolved by the early
\* outs: the predicate either cannot match or must match the only value of
\* the width, so no find of an array of width 0 compares an element and the
\* assertion m_width != 0 of find_optimized holds
ZeroWidthResolved ==
    /\ (lastOp.op \in FindOps /\ arr.m_width = 0) =>
          /\ failed = ""
          /\ lastOp.compared = 0 /\ lastOp.calls = <<>> /\ lastOp.offers = 0
          /\ RangeLen > 0 =>
                IF CondHolds(query.cond, W0, query.value)
                THEN Len(reported) >= 1 /\ reported[1] = <<query.start, W0>>
                ELSE reported = <<>> /\ findRet
    /\ \A c \in Conds, v \in ZeroWidthValues :
          \/ ~can_match(c, v, lbound_for_width(0), ubound_for_width(0))
          \/ will_match(c, v, lbound_for_width(0), ubound_for_width(0))

\* scans of an array of width 0 that every element matches, and that none
\* does
ZeroWidthResolvedWitness ==
    /\ lastOp.op = "find" /\ arr.m_width = 0
    /\ query.cond = "Greater" /\ query.value = FromInt(-1)
    /\ query.sink.stopAt = 0 /\ Len(reported) = RangeLen /\ RangeLen > 2

ZeroWidthNoneWitness ==
    /\ lastOp.op = "find" /\ arr.m_width = 0
    /\ query.cond = "Less" /\ query.value = W0
    /\ RangeLen > 2 /\ reported = <<>> /\ findRet

\* C30: in every state of an attached accessor is_inner_bptree_node implies
\* has_refs, in the accessor and in the header, so the assertion of get_type
\* holds: after create with any type and after every operation,
\* set_has_refs(false) included
InnerHasRefs ==
    is_attached(arr) =>
        /\ arr.m_is_inner_bptree_node => arr.m_has_refs
        /\ heap[arr.m_ref].inner => heap[arr.m_ref].hasrefs
        /\ get_type(arr).failed = ""

\* C30, as the code keeps it: only a set_has_refs(false) takes an attached
\* accessor from a state where the implication holds to one where it fails
InnerHasRefsUnlessCleared ==
    [][(InnerHasRefs /\ ~InnerHasRefs') =>
          lastOp'.op = "set_has_refs" /\ ~lastOp'.flag]_vars

\* an inner B+-tree node whose has_refs flag set_has_refs(false) cleared
InnerClearedWitness ==
    /\ lastOp.op = "set_has_refs" /\ ~lastOp.flag
    /\ failed = ""
    /\ is_attached(arr)
    /\ arr.m_is_inner_bptree_node /\ ~arr.m_has_refs
    /\ get_type(arr).failed = "REALM_ASSERT_DEBUG(m_has_refs)"
=============================================================================
